---------------------------- MODULE Spec2Model ----------------------------
(***************************************************************************)
(* Model of the configuration front-end of webserv: the Tokenizer          *)
(* (src/src/config/tokenizer/Tokenizer.cpp), the recursive-descent         *)
(* ConfigParser (src/src/config/parser/ConfigParser.cpp), the directive    *)
(* handler tables (src/src/config/parser/directive_handler_table.cpp) and  *)
(* the Server / Location / Config entities they fill.                      *)
(*                                                                         *)
(* A std::string is a sequence of byte values (0..255); a C++ index i is   *)
(* the TLA+ index i + 1.  A std::size_t is a little-endian sequence of     *)
(* bytes (base 256) so that 64-bit arithmetic is exact; an int is a TLA+   *)
(* integer guarded against 32-bit overflow.  A thrown ConfigParseError is  *)
(* a record holding its what() string.                                     *)
(***************************************************************************)
EXTENDS Integers, Sequences, FiniteSets, TLC

VARIABLES
    input,      \* the configuration source handed to ConfigParser's constructor
    tokens,     \* ConfigParser::_tokens
    pos,        \* ConfigParser::_pos
    pc,         \* where the parser's control is (which loop it is about to iterate)
    config,     \* the local `Config config` of parseConfig
    server,     \* the local `Server server` of parseServer
    location,   \* the local `Location location` of parseLocation
    seen,       \* the local `seen` set of the block being parsed
    result,     \* what the caller of ConfigParser(...).parseConfig() got
    call,       \* a call of one function: its name, its arguments or its locals
    ret         \* what that call returned

vars == <<input, tokens, pos, pc, config, server, location, seen, result, call, ret>>

\* a local variable: v is computed once and bound to the parameter of F
Let(v, F(_)) == F(v)

\* the same, with v computed before F is applied, however F is evaluated
Once(v, F(_)) == CHOOSE r \in {F(x) : x \in {v}} : TRUE

---------------------------------------------------------------------------
(* <cctype> in the "C" locale, on unsigned char values.                    *)

isdigit(c) == c >= 48 /\ c <= 57
isalpha(c) == (c >= 65 /\ c <= 90) \/ (c >= 97 /\ c <= 122)
isalnum(c) == isalpha(c) \/ isdigit(c)
isspace(c) == c = 32 \/ (c >= 9 /\ c <= 13)
tolower(c) == IF c >= 65 /\ c <= 90 THEN c + 32 ELSE c
toupper(c) == IF c >= 97 /\ c <= 122 THEN c - 32 ELSE c

(* std::string helpers.                                                    *)

RECURSIVE toLower(_)
toLower(str) ==
    IF str = <<>> THEN <<>> ELSE <<tolower(Head(str))>> \o toLower(Tail(str))

\* _input[i] for 0 <= i <= size(): operator[] at size() yields '\0'
CharAt(str, i) == IF i < Len(str) THEN str[i + 1] ELSE 0

\* str.substr(start, n)
substr(str, start, n) == SubSeq(str, start + 1, start + n)

\* str.find(c, start): the 0-based index of the first c at or after start, or -1 (npos)
RECURSIVE find(_, _, _)
find(str, c, start) ==
    IF start >= Len(str) THEN -1
    ELSE IF str[start + 1] = c THEN start
    ELSE find(str, c, start + 1)

\* haystack.find(needle) != npos
Contains(haystack, needle) ==
    \E i \in 0..(Len(haystack) - Len(needle)) :
        SubSeq(haystack, i + 1, i + Len(needle)) = needle

StartsWith(str, prefix) ==
    Len(str) >= Len(prefix) /\ SubSeq(str, 1, Len(prefix)) = prefix

RECURSIVE digitsOf(_)
digitsOf(n) == IF n < 10 THEN <<48 + n>> ELSE Append(digitsOf(n \div 10), 48 + (n % 10))

\* std::to_string(int)
to_string(n) == IF n < 0 THEN <<45>> \o digitsOf(-n) ELSE digitsOf(n)

---------------------------------------------------------------------------
(* String literals of the sources, as byte sequences.                      *)

\* K_server: "server"
K_server == <<115, 101, 114, 118, 101, 114>>
\* K_location: "location"
K_location == <<108, 111, 99, 97, 116, 105, 111, 110>>
\* K_listen: "listen"
K_listen == <<108, 105, 115, 116, 101, 110>>
\* K_host: "host"
K_host == <<104, 111, 115, 116>>
\* K_root: "root"
K_root == <<114, 111, 111, 116>>
\* K_index: "index"
K_index == <<105, 110, 100, 101, 120>>
\* K_autoindex: "autoindex"
K_autoindex == <<97, 117, 116, 111, 105, 110, 100, 101, 120>>
\* K_methods: "methods"
K_methods == <<109, 101, 116, 104, 111, 100, 115>>
\* K_upload_store: "upload_store"
K_upload_store == <<117, 112, 108, 111, 97, 100, 95, 115, 116, 111, 114, 101>>
\* K_return: "return"
K_return == <<114, 101, 116, 117, 114, 110>>
\* K_error_page: "error_page"
K_error_page == <<101, 114, 114, 111, 114, 95, 112, 97, 103, 101>>
\* K_client_max_body_size: "client_max_body_size"
K_client_max_body_size == <<99, 108, 105, 101, 110, 116, 95, 109, 97, 120, 95, 98, 111, 100, 121, 95, 115, 105, 122, 101>>
\* K_cgi_extension: "cgi_extension"
K_cgi_extension == <<99, 103, 105, 95, 101, 120, 116, 101, 110, 115, 105, 111, 110>>
\* K_server_name: "server_name"
K_server_name == <<115, 101, 114, 118, 101, 114, 95, 110, 97, 109, 101>>
\* BOM: the bytes EF BB BF
BOM == <<239, 187, 191>>
\* M_Line: "Line "
M_Line == <<76, 105, 110, 101, 32>>
\* M_Column: ", column "
M_Column == <<44, 32, 99, 111, 108, 117, 109, 110, 32>>
\* M_Colon: ": "
M_Colon == <<58, 32>>
\* M_ZeroLengthIdentifier: "Zero-length identifier"
M_ZeroLengthIdentifier == <<90, 101, 114, 111, 45, 108, 101, 110, 103, 116, 104, 32, 105, 100, 101, 110, 116, 105, 102, 105, 101, 114>>
\* M_InvalidTokenRange: "Internal error: invalid token range"
M_InvalidTokenRange == <<73, 110, 116, 101, 114, 110, 97, 108, 32, 101, 114, 114, 111, 114, 58, 32, 105, 110, 118, 97, 108, 105, 100, 32, 116, 111, 107, 101, 110, 32, 114, 97, 110, 103, 101>>
\* M_DollarInToken: "Found '$' in unquoted token; please wrap any text containing '$' in quotes"
M_DollarInToken == <<70, 111, 117, 110, 100, 32, 39, 36, 39, 32, 105, 110, 32, 117, 110, 113, 117, 111, 116, 101, 100, 32, 116, 111, 107, 101, 110, 59, 32, 112, 108, 101, 97, 115, 101, 32, 119, 114, 97, 112, 32, 97, 110, 121, 32, 116, 101, 120, 116, 32, 99, 111, 110, 116, 97, 105, 110, 105, 110, 103, 32, 39, 36, 39, 32, 105, 110, 32, 113, 117, 111, 116, 101, 115>>
\* M_NonPrintable: "Identifier contains non-printable/control character"
M_NonPrintable == <<73, 100, 101, 110, 116, 105, 102, 105, 101, 114, 32, 99, 111, 110, 116, 97, 105, 110, 115, 32, 110, 111, 110, 45, 112, 114, 105, 110, 116, 97, 98, 108, 101, 47, 99, 111, 110, 116, 114, 111, 108, 32, 99, 104, 97, 114, 97, 99, 116, 101, 114>>
\* M_InvalidNumberSuffix: "Invalid number suffix: expected single letter like 'k', 'm', or 'g'"
M_InvalidNumberSuffix == <<73, 110, 118, 97, 108, 105, 100, 32, 110, 117, 109, 98, 101, 114, 32, 115, 117, 102, 102, 105, 120, 58, 32, 101, 120, 112, 101, 99, 116, 101, 100, 32, 115, 105, 110, 103, 108, 101, 32, 108, 101, 116, 116, 101, 114, 32, 108, 105, 107, 101, 32, 39, 107, 39, 44, 32, 39, 109, 39, 44, 32, 111, 114, 32, 39, 103, 39>>
\* M_UnterminatedString: "Unterminated string literal ("
M_UnterminatedString == <<85, 110, 116, 101, 114, 109, 105, 110, 97, 116, 101, 100, 32, 115, 116, 114, 105, 110, 103, 32, 108, 105, 116, 101, 114, 97, 108, 32, 40>>
\* M_CloseParen: ")"
M_CloseParen == <<41>>
\* M_TrailingBackslash: "trailing backslash"
M_TrailingBackslash == <<116, 114, 97, 105, 108, 105, 110, 103, 32, 98, 97, 99, 107, 115, 108, 97, 115, 104>>
\* M_UnexpectedNewline: "unexpected newline"
M_UnexpectedNewline == <<117, 110, 101, 120, 112, 101, 99, 116, 101, 100, 32, 110, 101, 119, 108, 105, 110, 101>>
\* M_EndOfInput: "end of input"
M_EndOfInput == <<101, 110, 100, 32, 111, 102, 32, 105, 110, 112, 117, 116>>
\* M_InvalidEscape: "Invalid escape sequence " followed by one backslash
M_InvalidEscape == <<73, 110, 118, 97, 108, 105, 100, 32, 101, 115, 99, 97, 112, 101, 32, 115, 101, 113, 117, 101, 110, 99, 101, 32, 92>>
\* M_In: " in "
M_In == <<32, 105, 110, 32>>
\* M_QuotedString: "-quoted string"
M_QuotedString == <<45, 113, 117, 111, 116, 101, 100, 32, 115, 116, 114, 105, 110, 103>>
\* M_EscapesNotAllowed: "Escapes not allowed in single-quoted strings"
M_EscapesNotAllowed == <<69, 115, 99, 97, 112, 101, 115, 32, 110, 111, 116, 32, 97, 108, 108, 111, 119, 101, 100, 32, 105, 110, 32, 115, 105, 110, 103, 108, 101, 45, 113, 117, 111, 116, 101, 100, 32, 115, 116, 114, 105, 110, 103, 115>>
\* M_StringTooLong: "String literal exceeds 64 KiB limit"
M_StringTooLong == <<83, 116, 114, 105, 110, 103, 32, 108, 105, 116, 101, 114, 97, 108, 32, 101, 120, 99, 101, 101, 100, 115, 32, 54, 52, 32, 75, 105, 66, 32, 108, 105, 109, 105, 116>>
\* M_UnterminatedComment: "Unterminated block comment"
M_UnterminatedComment == <<85, 110, 116, 101, 114, 109, 105, 110, 97, 116, 101, 100, 32, 98, 108, 111, 99, 107, 32, 99, 111, 109, 109, 101, 110, 116>>
\* M_UnexpectedCharacter: "Unexpected character '"
M_UnexpectedCharacter == <<85, 110, 101, 120, 112, 101, 99, 116, 101, 100, 32, 99, 104, 97, 114, 97, 99, 116, 101, 114, 32, 39>>
\* M_Quote: "'"
M_Quote == <<39>>

\* M_InvalidNumberFor: ": Invalid number for '"
M_InvalidNumberFor == <<58, 32, 73, 110, 118, 97, 108, 105, 100, 32, 110, 117, 109, 98, 101, 114, 32, 102, 111, 114, 32, 39>>
\* M_QuoteColon: "': "
M_QuoteColon == <<39, 58, 32>>
\* M_Arrow: "\n  --> "
M_Arrow == <<10, 32, 32, 45, 45, 62, 32>>
\* M_EmptySizeFor: ": Empty size for '"
M_EmptySizeFor == <<58, 32, 69, 109, 112, 116, 121, 32, 115, 105, 122, 101, 32, 102, 111, 114, 32, 39>>
\* M_InvalidSizeFormatFor: ": Invalid size format for '"
M_InvalidSizeFormatFor == <<58, 32, 73, 110, 118, 97, 108, 105, 100, 32, 115, 105, 122, 101, 32, 102, 111, 114, 109, 97, 116, 32, 102, 111, 114, 32, 39>>
\* M_Unknown: "?"
M_Unknown == <<63>>
\* S_DefaultHost: "0.0.0.0"
S_DefaultHost == <<48, 46, 48, 46, 48, 46, 48>>
\* S_on: "on"
S_on == <<111, 110>>
\* S_off: "off"
S_off == <<111, 102, 102>>
\* S_GET: "GET"
S_GET == <<71, 69, 84>>
\* S_HEAD: "HEAD"
S_HEAD == <<72, 69, 65, 68>>
\* S_POST: "POST"
S_POST == <<80, 79, 83, 84>>
\* S_PUT: "PUT"
S_PUT == <<80, 85, 84>>
\* S_DELETE: "DELETE"
S_DELETE == <<68, 69, 76, 69, 84, 69>>
\* S_CONNECT: "CONNECT"
S_CONNECT == <<67, 79, 78, 78, 69, 67, 84>>
\* S_OPTIONS: "OPTIONS"
S_OPTIONS == <<79, 80, 84, 73, 79, 78, 83>>
\* S_TRACE: "TRACE"
S_TRACE == <<84, 82, 65, 67, 69>>
\* S_PATCH: "PATCH"
S_PATCH == <<80, 65, 84, 67, 72>>
\* M_Directive: "Directive '"
M_Directive == <<68, 105, 114, 101, 99, 116, 105, 118, 101, 32, 39>>
\* M_TakesExactly: "' takes exactly "
M_TakesExactly == <<39, 32, 116, 97, 107, 101, 115, 32, 101, 120, 97, 99, 116, 108, 121, 32>>
\* M_ArgumentsButGot: " argument(s), but got "
M_ArgumentsButGot == <<32, 97, 114, 103, 117, 109, 101, 110, 116, 40, 115, 41, 44, 32, 98, 117, 116, 32, 103, 111, 116, 32>>
\* M_RequiresAtLeast: "' requires at least "
M_RequiresAtLeast == <<39, 32, 114, 101, 113, 117, 105, 114, 101, 115, 32, 97, 116, 32, 108, 101, 97, 115, 116, 32>>
\* M_InvalidPortNumber: "Invalid port number: "
M_InvalidPortNumber == <<73, 110, 118, 97, 108, 105, 100, 32, 112, 111, 114, 116, 32, 110, 117, 109, 98, 101, 114, 58, 32>>
\* M_PortOutOfIntegerRange: "Port number out of integer range: "
M_PortOutOfIntegerRange == <<80, 111, 114, 116, 32, 110, 117, 109, 98, 101, 114, 32, 111, 117, 116, 32, 111, 102, 32, 105, 110, 116, 101, 103, 101, 114, 32, 114, 97, 110, 103, 101, 58, 32>>
\* M_PortOutOfValidRange: "Port number out of valid range (0-65535): "
M_PortOutOfValidRange == <<80, 111, 114, 116, 32, 110, 117, 109, 98, 101, 114, 32, 111, 117, 116, 32, 111, 102, 32, 118, 97, 108, 105, 100, 32, 114, 97, 110, 103, 101, 32, 40, 48, 45, 54, 53, 53, 51, 53, 41, 58, 32>>
\* M_InvalidAutoindex: "Invalid value for 'autoindex': "
M_InvalidAutoindex == <<73, 110, 118, 97, 108, 105, 100, 32, 118, 97, 108, 117, 101, 32, 102, 111, 114, 32, 39, 97, 117, 116, 111, 105, 110, 100, 101, 120, 39, 58, 32>>
\* M_MethodsRequiresOne: "Directive 'methods' requires at least one HTTP method"
M_MethodsRequiresOne == <<68, 105, 114, 101, 99, 116, 105, 118, 101, 32, 39, 109, 101, 116, 104, 111, 100, 115, 39, 32, 114, 101, 113, 117, 105, 114, 101, 115, 32, 97, 116, 32, 108, 101, 97, 115, 116, 32, 111, 110, 101, 32, 72, 84, 84, 80, 32, 109, 101, 116, 104, 111, 100>>
\* M_InvalidHttpMethod: "Invalid HTTP method: "
M_InvalidHttpMethod == <<73, 110, 118, 97, 108, 105, 100, 32, 72, 84, 84, 80, 32, 109, 101, 116, 104, 111, 100, 58, 32>>
\* M_EmptyConfiguration: "Empty configuration"
M_EmptyConfiguration == <<69, 109, 112, 116, 121, 32, 99, 111, 110, 102, 105, 103, 117, 114, 97, 116, 105, 111, 110>>
\* M_ExpectedServerBlock: "Expected 'server' block"
M_ExpectedServerBlock == <<69, 120, 112, 101, 99, 116, 101, 100, 32, 39, 115, 101, 114, 118, 101, 114, 39, 32, 98, 108, 111, 99, 107>>
\* M_UnexpectedAfterServer: "Unexpected token after server block"
M_UnexpectedAfterServer == <<85, 110, 101, 120, 112, 101, 99, 116, 101, 100, 32, 116, 111, 107, 101, 110, 32, 97, 102, 116, 101, 114, 32, 115, 101, 114, 118, 101, 114, 32, 98, 108, 111, 99, 107>>
\* M_DuplicateDirective: "Duplicate directive: '"
M_DuplicateDirective == <<68, 117, 112, 108, 105, 99, 97, 116, 101, 32, 100, 105, 114, 101, 99, 116, 105, 118, 101, 58, 32, 39>>
\* M_UnknownDirective: "Unknown directive: '"
M_UnknownDirective == <<85, 110, 107, 110, 111, 119, 110, 32, 100, 105, 114, 101, 99, 116, 105, 118, 101, 58, 32, 39>>
\* M_Expected: "Expected "
M_Expected == <<69, 120, 112, 101, 99, 116, 101, 100, 32>>
\* M_ButGot: ", but got "
M_ButGot == <<44, 32, 98, 117, 116, 32, 103, 111, 116, 32>>
\* M_For: " for "
M_For == <<32, 102, 111, 114, 32>>
\* M_Or: " or "
M_Or == <<32, 111, 114, 32>>
\* X_ServerBlock: "server block"
X_ServerBlock == <<115, 101, 114, 118, 101, 114, 32, 98, 108, 111, 99, 107>>
\* X_StartOfServerBlock: "start of server block"
X_StartOfServerBlock == <<115, 116, 97, 114, 116, 32, 111, 102, 32, 115, 101, 114, 118, 101, 114, 32, 98, 108, 111, 99, 107>>
\* X_EndOfServerBlock: "end of server block"
X_EndOfServerBlock == <<101, 110, 100, 32, 111, 102, 32, 115, 101, 114, 118, 101, 114, 32, 98, 108, 111, 99, 107>>
\* X_SemicolonAfterServerDirective: "semicolon after server directive"
X_SemicolonAfterServerDirective == <<115, 101, 109, 105, 99, 111, 108, 111, 110, 32, 97, 102, 116, 101, 114, 32, 115, 101, 114, 118, 101, 114, 32, 100, 105, 114, 101, 99, 116, 105, 118, 101>>
\* X_LocationBlock: "location block"
X_LocationBlock == <<108, 111, 99, 97, 116, 105, 111, 110, 32, 98, 108, 111, 99, 107>>
\* X_LocationPath: "location path"
X_LocationPath == <<108, 111, 99, 97, 116, 105, 111, 110, 32, 112, 97, 116, 104>>
\* X_StartOfLocationBlock: "start of location block"
X_StartOfLocationBlock == <<115, 116, 97, 114, 116, 32, 111, 102, 32, 108, 111, 99, 97, 116, 105, 111, 110, 32, 98, 108, 111, 99, 107>>
\* X_EndOfLocationBlock: "end of location block"
X_EndOfLocationBlock == <<101, 110, 100, 32, 111, 102, 32, 108, 111, 99, 97, 116, 105, 111, 110, 32, 98, 108, 111, 99, 107>>
\* X_SemicolonAfterLocationDirective: "semicolon after location directive"
X_SemicolonAfterLocationDirective == <<115, 101, 109, 105, 99, 111, 108, 111, 110, 32, 97, 102, 116, 101, 114, 32, 108, 111, 99, 97, 116, 105, 111, 110, 32, 100, 105, 114, 101, 99, 116, 105, 118, 101>>
\* T_UNKNOWN: "UNKNOWN"
T_UNKNOWN == <<85, 78, 75, 78, 79, 87, 78>>
\* T_IDENTIFIER: "IDENTIFIER"
T_IDENTIFIER == <<73, 68, 69, 78, 84, 73, 70, 73, 69, 82>>
\* T_NUMBER: "NUMBER"
T_NUMBER == <<78, 85, 77, 66, 69, 82>>
\* T_STRING: "STRING"
T_STRING == <<83, 84, 82, 73, 78, 71>>
\* T_LBRACE: "LBRACE"
T_LBRACE == <<76, 66, 82, 65, 67, 69>>
\* T_RBRACE: "RBRACE"
T_RBRACE == <<82, 66, 82, 65, 67, 69>>
\* T_SEMICOLON: "SEMICOLON"
T_SEMICOLON == <<83, 69, 77, 73, 67, 79, 76, 79, 78>>
\* T_END_OF_FILE: "END_OF_FILE"
T_END_OF_FILE == <<69, 78, 68, 95, 79, 70, 95, 70, 73, 76, 69>>
\* T_KEYWORD_SERVER: "KEYWORD_SERVER"
T_KEYWORD_SERVER == <<75, 69, 89, 87, 79, 82, 68, 95, 83, 69, 82, 86, 69, 82>>
\* T_KEYWORD_LOCATION: "KEYWORD_LOCATION"
T_KEYWORD_LOCATION == <<75, 69, 89, 87, 79, 82, 68, 95, 76, 79, 67, 65, 84, 73, 79, 78>>
\* T_KEYWORD_LISTEN: "KEYWORD_LISTEN"
T_KEYWORD_LISTEN == <<75, 69, 89, 87, 79, 82, 68, 95, 76, 73, 83, 84, 69, 78>>
\* T_KEYWORD_HOST: "KEYWORD_HOST"
T_KEYWORD_HOST == <<75, 69, 89, 87, 79, 82, 68, 95, 72, 79, 83, 84>>
\* T_KEYWORD_ROOT: "KEYWORD_ROOT"
T_KEYWORD_ROOT == <<75, 69, 89, 87, 79, 82, 68, 95, 82, 79, 79, 84>>
\* T_KEYWORD_INDEX: "KEYWORD_INDEX"
T_KEYWORD_INDEX == <<75, 69, 89, 87, 79, 82, 68, 95, 73, 78, 68, 69, 88>>
\* T_KEYWORD_AUTOINDEX: "KEYWORD_AUTOINDEX"
T_KEYWORD_AUTOINDEX == <<75, 69, 89, 87, 79, 82, 68, 95, 65, 85, 84, 79, 73, 78, 68, 69, 88>>
\* T_KEYWORD_METHODS: "KEYWORD_METHODS"
T_KEYWORD_METHODS == <<75, 69, 89, 87, 79, 82, 68, 95, 77, 69, 84, 72, 79, 68, 83>>
\* T_KEYWORD_UPLOAD_STORE: "KEYWORD_UPLOAD_STORE"
T_KEYWORD_UPLOAD_STORE == <<75, 69, 89, 87, 79, 82, 68, 95, 85, 80, 76, 79, 65, 68, 95, 83, 84, 79, 82, 69>>
\* T_KEYWORD_RETURN: "KEYWORD_RETURN"
T_KEYWORD_RETURN == <<75, 69, 89, 87, 79, 82, 68, 95, 82, 69, 84, 85, 82, 78>>
\* T_KEYWORD_ERROR_PAGE: "KEYWORD_ERROR_PAGE"
T_KEYWORD_ERROR_PAGE == <<75, 69, 89, 87, 79, 82, 68, 95, 69, 82, 82, 79, 82, 95, 80, 65, 71, 69>>
\* T_KEYWORD_CLIENT_MAX_BODY_SIZE: "KEYWORD_CLIENT_MAX_BODY_SIZE"
T_KEYWORD_CLIENT_MAX_BODY_SIZE == <<75, 69, 89, 87, 79, 82, 68, 95, 67, 76, 73, 69, 78, 84, 95, 77, 65, 88, 95, 66, 79, 68, 89, 95, 83, 73, 90, 69>>
\* T_KEYWORD_CGI_EXTENSION: "KEYWORD_CGI_EXTENSION"
T_KEYWORD_CGI_EXTENSION == <<75, 69, 89, 87, 79, 82, 68, 95, 67, 71, 73, 95, 69, 88, 84, 69, 78, 83, 73, 79, 78>>
---------------------------------------------------------------------------
(* Diagnostics: errorUtils.cpp, ConfigParseError.cpp.                      *)

\* formatError: "Line X, column Y: <msg>"
formatError(msg, line, column) ==
    M_Line \o to_string(line) \o M_Column \o to_string(column) \o M_Colon \o msg

\* no exception in flight / a thrown ConfigParseError (SyntaxError, UnexpectedToken
\* and TokenizerError are aliases of it) with its what() string
NoError == [thrown |-> FALSE, what |-> <<>>]
ConfigParseError(message) ==
    \* what() is the C string of std::invalid_argument: it ends at the first NUL byte
    [thrown |-> TRUE,
     what |-> LET nul == {i \in 1..Len(message) : message[i] = 0}
              IN  IF nul = {} THEN message
                  ELSE SubSeq(message, 1, (CHOOSE i \in nul : \A j \in nul : i <= j) - 1)]

---------------------------------------------------------------------------
(* Token model: token.hpp.                                                 *)

TokenType ==
    {"IDENTIFIER", "NUMBER", "STRING", "LBRACE", "RBRACE", "SEMICOLON", "END_OF_FILE",
     "KEYWORD_SERVER", "KEYWORD_LOCATION", "KEYWORD_LISTEN", "KEYWORD_HOST",
     "KEYWORD_ROOT", "KEYWORD_INDEX", "KEYWORD_AUTOINDEX", "KEYWORD_METHODS",
     "KEYWORD_UPLOAD_STORE", "KEYWORD_RETURN", "KEYWORD_ERROR_PAGE",
     "KEYWORD_CLIENT_MAX_BODY_SIZE", "KEYWORD_CGI_EXTENSION"}

Token(t, v, l, c, off) ==
    [type |-> t, value |-> v, line |-> l, column |-> c, offset |-> off]

NoToken == Token("END_OF_FILE", <<>>, 0, 0, 0)

---------------------------------------------------------------------------
(* Tokenizer: Tokenizer.cpp.  The cursor is [pos, line, column]; an        *)
(* operation that can throw returns [cur, err, ...].                       *)

\* Tokenizer::Tokenizer
Tokenizer == [pos |-> 0, line |-> 1, column |-> 1]

Tokenizer_isAtEnd(inp, cur) == cur.pos >= Len(inp)

Tokenizer_peek(inp, cur) == CharAt(inp, cur.pos)

Tokenizer_peekNext(inp, cur) ==
    IF Tokenizer_isAtEnd(inp, cur) THEN 0 ELSE CharAt(inp, cur.pos + 1)

\* the cursor after Tokenizer::advance(); the consumed character is Tokenizer_peek
Tokenizer_advance(inp, cur) ==
    Once(cur, LAMBDA at :
        IF Tokenizer_peek(inp, at) = 10
        THEN [pos |-> at.pos + 1, line |-> at.line + 1, column |-> 1]
        ELSE [pos |-> at.pos + 1, line |-> at.line, column |-> at.column + 1])

isIdentifierStart(c) ==
    isalpha(c) \/ c = 95 \/ c = 47 \/ c = 46 \/ c = 45 \/ c = 58

isIdentifierChar(c) ==
    isalnum(c) \/ c = 95 \/ c = 47 \/ c = 46 \/ c = 45 \/ c = 58

\* skipping the byte order mark as three columns
skipUtf8BOM_countsColumns(inp, cur) ==
    IF StartsWith(inp, BOM)
    THEN [cur EXCEPT !.pos = @ + Len(BOM), !.column = @ + Len(BOM)]
    ELSE cur

skipUtf8BOM(inp, cur) ==
    IF StartsWith(inp, BOM) THEN [cur EXCEPT !.pos = @ + Len(BOM)] ELSE cur

skipCR(cur) == [cur EXCEPT !.pos = @ + 1]

skipNewline(cur) == [cur EXCEPT !.pos = @ + 1, !.line = @ + 1, !.column = 1]

skipOtherWhitespace(cur) == [cur EXCEPT !.pos = @ + 1, !.column = @ + 1]

\* while (!isAtEnd() && peek() != '\n') { ++_pos; ++_column; }
RECURSIVE skipToEndOfLine(_, _)
skipToEndOfLine(inp, cur) ==
    IF ~Tokenizer_isAtEnd(inp, cur) /\ Tokenizer_peek(inp, cur) # 10
    THEN skipToEndOfLine(inp, [cur EXCEPT !.pos = @ + 1, !.column = @ + 1])
    ELSE cur

skipDoubleSlashComment(inp, cur) ==
    skipToEndOfLine(inp, [cur EXCEPT !.pos = @ + 2, !.column = @ + 2])

skipHashComment(inp, cur) ==
    skipToEndOfLine(inp, [cur EXCEPT !.pos = @ + 1, !.column = @ + 1])

\* the loop of skipMultiLineComment without the line count
RECURSIVE scanBlockComment_sameLine(_, _)
scanBlockComment_sameLine(inp, cur) ==
    IF Tokenizer_isAtEnd(inp, cur) THEN [cur |-> cur, closed |-> FALSE]
    ELSE IF Tokenizer_peek(inp, cur) = 42 /\ Tokenizer_peekNext(inp, cur) = 47
    THEN [cur |-> [cur EXCEPT !.pos = @ + 2, !.column = @ + 2], closed |-> TRUE]
    ELSE scanBlockComment_sameLine(inp, [cur EXCEPT !.pos = @ + 1, !.column = @ + 1])

\* the loop of skipMultiLineComment: [cur, closed]
RECURSIVE scanBlockComment(_, _)
scanBlockComment(inp, cur) ==
    IF Tokenizer_isAtEnd(inp, cur) THEN [cur |-> cur, closed |-> FALSE]
    ELSE IF Tokenizer_peek(inp, cur) = 42 /\ Tokenizer_peekNext(inp, cur) = 47
    THEN [cur |-> [cur EXCEPT !.pos = @ + 2, !.column = @ + 2], closed |-> TRUE]
    ELSE IF Tokenizer_peek(inp, cur) = 10
    THEN scanBlockComment(inp, [pos |-> cur.pos + 1, line |-> cur.line + 1, column |-> 1])
    ELSE scanBlockComment(inp, [cur EXCEPT !.pos = @ + 1, !.column = @ + 1])

skipMultiLineComment(inp, cur) ==
    Once(scanBlockComment(inp, [cur EXCEPT !.pos = @ + 2, !.column = @ + 2]), LAMBDA r :
        [cur |-> r.cur,
         err |-> IF r.closed THEN NoError
                 ELSE ConfigParseError(
                          formatError(M_UnterminatedComment, r.cur.line, r.cur.column))])

RECURSIVE skipWhitespaceAndComments(_, _)
skipWhitespaceAndComments(inp, cur) ==
    IF Tokenizer_isAtEnd(inp, cur) THEN [cur |-> cur, err |-> NoError]
    ELSE LET c == Tokenizer_peek(inp, cur)
         IN  IF c = 13 THEN skipWhitespaceAndComments(inp, skipCR(cur))
             ELSE IF c = 10 THEN skipWhitespaceAndComments(inp, skipNewline(cur))
             ELSE IF isspace(c) THEN skipWhitespaceAndComments(inp, skipOtherWhitespace(cur))
             ELSE IF c = 47 /\ Tokenizer_peekNext(inp, cur) = 47
                  THEN skipWhitespaceAndComments(inp, skipDoubleSlashComment(inp, cur))
             ELSE IF c = 35 THEN skipWhitespaceAndComments(inp, skipHashComment(inp, cur))
             ELSE IF c = 47 /\ Tokenizer_peekNext(inp, cur) = 42
                  THEN Once(skipMultiLineComment(inp, cur), LAMBDA r :
                           IF r.err.thrown THEN r
                           ELSE skipWhitespaceAndComments(inp, r.cur))
             ELSE [cur |-> cur, err |-> NoError]

\* the lookup in the static map keywords: the kind of a key, IDENTIFIER when not found
keywords(lower) ==
    CASE lower = K_server -> "KEYWORD_SERVER"
      [] lower = K_location -> "KEYWORD_LOCATION"
      [] lower = K_listen -> "KEYWORD_LISTEN"
      [] lower = K_host -> "KEYWORD_HOST"
      [] lower = K_root -> "KEYWORD_ROOT"
      [] lower = K_index -> "KEYWORD_INDEX"
      [] lower = K_autoindex -> "KEYWORD_AUTOINDEX"
      [] lower = K_methods -> "KEYWORD_METHODS"
      [] lower = K_upload_store -> "KEYWORD_UPLOAD_STORE"
      [] lower = K_return -> "KEYWORD_RETURN"
      [] lower = K_error_page -> "KEYWORD_ERROR_PAGE"
      [] lower = K_client_max_body_size -> "KEYWORD_CLIENT_MAX_BODY_SIZE"
      [] lower = K_cgi_extension -> "KEYWORD_CGI_EXTENSION"
      [] OTHER -> "IDENTIFIER"

\* the word looked up as it is written
resolveKeywordType_caseSensitive(word) == keywords(word)

resolveKeywordType(word) == keywords(toLower(word))

RECURSIVE scanIdentifier(_, _)
scanIdentifier(inp, cur) ==
    IF ~Tokenizer_isAtEnd(inp, cur) /\ isIdentifierChar(Tokenizer_peek(inp, cur))
    THEN scanIdentifier(inp, Tokenizer_advance(inp, cur))
    ELSE cur

\* the error validateIdentifier(start) throws with the cursor at cur, or NoError
validateIdentifier(inp, cur, start) ==
    LET word == substr(inp, start, cur.pos - start)
    IN  IF cur.pos = start
        THEN ConfigParseError(formatError(M_ZeroLengthIdentifier, cur.line, cur.column))
        ELSE IF cur.pos < start
        THEN ConfigParseError(formatError(M_InvalidTokenRange, cur.line, cur.column))
        ELSE IF find(word, 36, 0) # -1
        THEN ConfigParseError(formatError(M_DollarInToken, cur.line, cur.column))
        ELSE IF \E i \in 1..Len(word) : word[i] < 32 \/ word[i] = 127
        THEN ConfigParseError(formatError(M_NonPrintable, cur.line, cur.column))
        ELSE NoError

makeToken(cur, type, value) ==
    LET col == cur.column - Len(value)
    IN  Token(type, value, cur.line, IF col < 1 THEN 1 ELSE col, cur.pos - Len(value))

parseIdentifierOrKeyword(inp, cur) ==
    Once(scanIdentifier(inp, cur), LAMBDA end :
        Once(validateIdentifier(inp, end, cur.pos), LAMBDA err :
            LET word == substr(inp, cur.pos, end.pos - cur.pos)
            IN  [cur |-> end, err |-> err,
                 token |-> IF err.thrown THEN NoToken
                           ELSE makeToken(end, resolveKeywordType(word), word)]))

RECURSIVE scanDigits(_, _)
scanDigits(inp, cur) ==
    IF ~Tokenizer_isAtEnd(inp, cur) /\ isdigit(Tokenizer_peek(inp, cur))
    THEN scanDigits(inp, Tokenizer_advance(inp, cur))
    ELSE cur

scanOptionalUnitSuffix(inp, cur) ==
    IF Tokenizer_isAtEnd(inp, cur) THEN [cur |-> cur, err |-> NoError]
    ELSE IF isalpha(Tokenizer_peek(inp, cur))
    THEN LET a == Tokenizer_advance(inp, cur)
         IN  [cur |-> a,
              err |-> IF ~Tokenizer_isAtEnd(inp, a) /\ isalpha(Tokenizer_peek(inp, a))
                      THEN ConfigParseError(
                               formatError(M_InvalidNumberSuffix, a.line, a.column))
                      ELSE NoError]
    ELSE [cur |-> cur, err |-> NoError]

parseNumberOrUnit(inp, cur) ==
    Once(scanOptionalUnitSuffix(inp, scanDigits(inp, cur)), LAMBDA r :
        [cur |-> r.cur, err |-> r.err,
         token |-> IF r.err.thrown THEN NoToken
                   ELSE makeToken(r.cur, "NUMBER",
                                  substr(inp, cur.pos, r.cur.pos - cur.pos))])

throwUnterminatedString(cur, reason) ==
    ConfigParseError(
        formatError(M_UnterminatedString \o reason \o M_CloseParen, cur.line, cur.column))

\* an escape decoder that lets an unknown escape stand for the escaped character
parseEscapeSequence_lenient(inp, cur, quote) ==
    IF Tokenizer_isAtEnd(inp, cur)
    THEN [cur |-> cur, err |-> throwUnterminatedString(cur, M_TrailingBackslash), str |-> <<>>]
    ELSE LET next == Tokenizer_peek(inp, cur)
         IN  [cur |-> Tokenizer_advance(inp, cur), err |-> NoError,
              str |-> CASE next = 110 -> <<10>>
                        [] next = 116 -> <<9>>
                        [] next = 114 -> <<13>>
                        [] OTHER -> <<next>>]

\* [cur, err, str]: the decoded escape, with the cursor just after the backslash
parseEscapeSequence(inp, cur, quote) ==
    IF Tokenizer_isAtEnd(inp, cur)
    THEN [cur |-> cur, err |-> throwUnterminatedString(cur, M_TrailingBackslash), str |-> <<>>]
    ELSE LET next == Tokenizer_peek(inp, cur)
             a    == Tokenizer_advance(inp, cur)
         IN  CASE next = 110 -> [cur |-> a, err |-> NoError, str |-> <<10>>]
               [] next = 116 -> [cur |-> a, err |-> NoError, str |-> <<9>>]
               [] next = 114 -> [cur |-> a, err |-> NoError, str |-> <<13>>]
               [] next = 92  -> [cur |-> a, err |-> NoError, str |-> <<92>>]
               [] next = 34  -> [cur |-> a, err |-> NoError, str |-> <<34>>]
               [] next = 39  -> [cur |-> a, err |-> NoError, str |-> <<39>>]
               [] OTHER ->
                    [cur |-> a,
                     err |-> ConfigParseError(
                                 formatError(M_InvalidEscape \o <<next>> \o M_In \o <<quote>>
                                                 \o M_QuotedString, a.line, a.column)),
                     str |-> <<>>]

\* static const std::size_t MAX_STRING_LITERAL_LENGTH = 64 * 1024
MAX_STRING_LITERAL_LENGTH == 65536

\* the limit taken as reached by a literal of exactly 64 KiB
stringTooLong_atLimit(content) == Len(content) >= MAX_STRING_LITERAL_LENGTH

\* content.size() > MAX_STRING_LITERAL_LENGTH
stringTooLong(content) == Len(content) > MAX_STRING_LITERAL_LENGTH

\* one iteration of the while loop of parseStringLiteral on its variables cur (the
\* cursor) and content; `left` tells that the iteration returned a token or threw
stringLiteralIteration(inp, quote, st) ==
    LET c == Tokenizer_peek(inp, st.cur)
        a == Tokenizer_advance(inp, st.cur)
    IN  IF c = 10
        THEN [st EXCEPT !.err = throwUnterminatedString(st.cur, M_UnexpectedNewline),
                        !.left = TRUE]
        ELSE IF c = quote
        THEN [st EXCEPT !.cur = a, !.token = makeToken(a, "STRING", st.content),
                        !.left = TRUE]
        ELSE IF c = 92 /\ quote = 39
        THEN [st EXCEPT !.cur = a,
                        !.err = ConfigParseError(
                                    formatError(M_EscapesNotAllowed, a.line, a.column)),
                        !.left = TRUE]
        ELSE Once(IF c = 92 THEN parseEscapeSequence(inp, a, quote)
                 ELSE [cur |-> a, err |-> NoError, str |-> <<c>>], LAMBDA esc :
                 IF esc.err.thrown
                 THEN [st EXCEPT !.cur = esc.cur, !.err = esc.err, !.left = TRUE]
                 ELSE Once(st.content \o esc.str, LAMBDA content :
                          IF stringTooLong(content)
                          THEN [st EXCEPT !.cur = esc.cur, !.content = content,
                                          !.err = ConfigParseError(
                                                      formatError(M_StringTooLong,
                                                                  esc.cur.line,
                                                                  esc.cur.column)),
                                          !.left = TRUE]
                          ELSE [st EXCEPT !.cur = esc.cur, !.content = content]))

\* the first n iterations of `while (!isAtEnd())`, fewer when one of them leaves the loop
\* or the input ends; the count is halved so that a literal of 64 KiB needs no deep
\* recursion
RECURSIVE stringLiteralIterations(_, _, _, _)
stringLiteralIterations(inp, quote, st, n) ==
    IF n = 0 \/ st.left \/ Tokenizer_isAtEnd(inp, st.cur) THEN st
    ELSE IF n = 1 THEN stringLiteralIteration(inp, quote, st)
    ELSE Once(stringLiteralIterations(inp, quote, st, n \div 2), LAMBDA half :
             stringLiteralIterations(inp, quote, half, n - (n \div 2)))

\* the while loop of parseStringLiteral and what follows it: every iteration consumes a
\* byte, so the loop is left or the input is at its end after one iteration per byte
scanStringLiteral(inp, cur, quote, content) ==
    Once(stringLiteralIterations(
            inp, quote,
            [cur |-> cur, content |-> content, err |-> NoError, token |-> NoToken,
             left |-> FALSE],
            Len(inp) - cur.pos),
        LAMBDA st :
            IF st.left THEN [cur |-> st.cur, err |-> st.err, token |-> st.token]
            ELSE [cur |-> st.cur, err |-> throwUnterminatedString(st.cur, M_EndOfInput),
                  token |-> NoToken])

parseStringLiteral(inp, cur) ==
    scanStringLiteral(inp, Tokenizer_advance(inp, cur), Tokenizer_peek(inp, cur), <<>>)

\* the number of dots in the run of digits and dots that starts at index i
RECURSIVE countDots(_, _)
countDots(inp, i) ==
    IF i < Len(inp) /\ isdigit(inp[i + 1]) THEN countDots(inp, i + 1)
    ELSE IF i < Len(inp) /\ inp[i + 1] = 46 THEN 1 + countDots(inp, i + 1)
    ELSE 0

\* the heuristic satisfied by a single dot
looksLikeIpAddress_oneDot(inp, cur) == countDots(inp, cur.pos) >= 1

looksLikeIpAddress(inp, cur) == countDots(inp, cur.pos) >= 2

\* [cur, err, token]: the token dispatchToken appends
dispatchToken(inp, cur) ==
    LET c    == Tokenizer_peek(inp, cur)
        next == Tokenizer_peekNext(inp, cur)
        a    == Tokenizer_advance(inp, cur)
    IN  IF isdigit(c)
        THEN IF looksLikeIpAddress(inp, cur) \/ (~isdigit(next) /\ isIdentifierChar(next))
             THEN parseIdentifierOrKeyword(inp, cur)
             ELSE parseNumberOrUnit(inp, cur)
        ELSE IF isIdentifierStart(c) THEN parseIdentifierOrKeyword(inp, cur)
        ELSE IF c = 34 \/ c = 39 THEN parseStringLiteral(inp, cur)
        ELSE IF c = 123 THEN [cur |-> a, err |-> NoError, token |-> makeToken(a, "LBRACE", <<123>>)]
        ELSE IF c = 125 THEN [cur |-> a, err |-> NoError, token |-> makeToken(a, "RBRACE", <<125>>)]
        ELSE IF c = 59 THEN [cur |-> a, err |-> NoError, token |-> makeToken(a, "SEMICOLON", <<59>>)]
        ELSE [cur |-> cur,
              err |-> ConfigParseError(
                          formatError(M_UnexpectedCharacter \o <<c>> \o M_Quote,
                                      cur.line, cur.column)),
              token |-> NoToken]

\* one iteration of the while loop of tokenize(): [cur, err, emitted]
tokenizeIteration(inp, cur) ==
    Once(skipWhitespaceAndComments(inp, cur), LAMBDA ws :
        IF ws.err.thrown \/ Tokenizer_isAtEnd(inp, ws.cur)
        THEN [cur |-> ws.cur, err |-> ws.err, emitted |-> <<>>]
        ELSE Once(dispatchToken(inp, ws.cur), LAMBDA d :
                 [cur |-> d.cur, err |-> d.err,
                  emitted |-> IF d.err.thrown THEN <<>> ELSE <<d.token>>]))

RECURSIVE tokenizeLoop(_, _, _)
tokenizeLoop(inp, cur, toks) ==
    IF Tokenizer_isAtEnd(inp, cur)
    THEN [cur |-> cur, err |-> NoError,
          tokens |-> Append(toks, makeToken(cur, "END_OF_FILE", <<>>))]
    ELSE Let(tokenizeIteration(inp, cur), LAMBDA it :
             IF it.err.thrown THEN [cur |-> it.cur, err |-> it.err, tokens |-> <<>>]
             ELSE tokenizeLoop(inp, it.cur, toks \o it.emitted))

\* tokenize() without the final push_back of the END_OF_FILE token
tokenize_noEndOfFile(inp) ==
    Once(tokenizeLoop(inp, skipUtf8BOM(inp, Tokenizer), <<>>), LAMBDA r :
        IF r.err.thrown THEN r ELSE [r EXCEPT !.tokens = SubSeq(@, 1, Len(@) - 1)])

\* Tokenizer(inp).tokenize(): [cur, err, tokens]; nothing is returned when it throws
tokenize(inp) == tokenizeLoop(inp, skipUtf8BOM(inp, Tokenizer), <<>>)

---------------------------------------------------------------------------
(* std::size_t: a little-endian sequence of bytes without leading zero     *)
(* bytes (<<>> is 0).  sizeof(std::size_t) bytes are kept by an operation  *)
(* of the machine; the Big operators are the exact arithmetic.             *)

\* sizeof(std::size_t) on the 64-bit targets the Makefile builds for
SIZEOF_SIZE_T == 8

\* std::numeric_limits<int>::max()
INT_MAX == 2147483647

RECURSIVE BigTrim(_)
BigTrim(a) ==
    Once(a, LAMBDA v :
        IF v = <<>> THEN <<>>
        ELSE IF v[Len(v)] = 0 THEN BigTrim(SubSeq(v, 1, Len(v) - 1))
        ELSE v)

RECURSIVE BigFromInt(_)
BigFromInt(n) == IF n = 0 THEN <<>> ELSE <<n % 256>> \o BigFromInt(n \div 256)

\* a * m + c for 0 <= m, c < 2^16
RECURSIVE BigMulAddRaw(_, _, _)
BigMulAddRaw(a, m, c) ==
    IF a = <<>> THEN BigFromInt(c)
    ELSE Once(Head(a) * m + c, LAMBDA t :
             <<t % 256>> \o BigMulAddRaw(Tail(a), m, t \div 256))

BigMulAdd(a, m, c) == BigTrim(BigMulAddRaw(a, m, c))

RECURSIVE BigAddRaw(_, _, _)
BigAddRaw(a, b, c) ==
    IF a = <<>> /\ b = <<>> THEN BigFromInt(c)
    ELSE LET x == IF a = <<>> THEN 0 ELSE Head(a)
             y == IF b = <<>> THEN 0 ELSE Head(b)
         IN  Once(x + y + c, LAMBDA t :
             Once(IF a = <<>> THEN <<>> ELSE Tail(a), LAMBDA ra :
             Once(IF b = <<>> THEN <<>> ELSE Tail(b), LAMBDA rb :
                 <<t % 256>> \o BigAddRaw(ra, rb, t \div 256))))

BigAdd(a, b) == BigTrim(BigAddRaw(a, b, 0))

RECURSIVE BigMul(_, _)
BigMul(a, b) ==
    IF b = <<>> \/ a = <<>> THEN <<>>
    ELSE BigAdd(BigMulAdd(a, Head(b), 0),
                Once(BigMul(a, Tail(b)), LAMBDA rest :
                    IF rest = <<>> THEN <<>> ELSE <<0>> \o rest))

\* a < b
RECURSIVE BigLess(_, _)
BigLess(a, b) ==
    IF Len(a) # Len(b) THEN Len(a) < Len(b)
    ELSE IF a = <<>> THEN FALSE
    ELSE IF a[Len(a)] # b[Len(b)] THEN a[Len(a)] < b[Len(b)]
    ELSE BigLess(BigTrim(SubSeq(a, 1, Len(a) - 1)), BigTrim(SubSeq(b, 1, Len(b) - 1)))

\* the value of a Big that fits an int
RECURSIVE BigToInt(_)
BigToInt(a) == IF a = <<>> THEN 0 ELSE Head(a) + 256 * BigToInt(Tail(a))

\* the value of a run of decimal digits
RECURSIVE BigFromDigits(_, _)
BigFromDigits(digits, acc) ==
    IF digits = <<>> THEN acc
    ELSE BigFromDigits(Tail(digits), BigMulAdd(acc, 10, Head(digits) - 48))

\* what the machine keeps of an exact value: the low sizeof(size_t) bytes
size_t(a) == BigTrim(SubSeq(a, 1, IF Len(a) < SIZEOF_SIZE_T THEN Len(a) ELSE SIZEOF_SIZE_T))

\* a value fits std::size_t
FitsSizeT(a) == Len(a) <= SIZEOF_SIZE_T

---------------------------------------------------------------------------
(* std::from_chars (base 10) as stringUtils.cpp uses it.                   *)

\* the length of the run of digits that starts at 0-based index i
RECURSIVE digitRun(_, _)
digitRun(str, i) ==
    IF i < Len(str) /\ isdigit(str[i + 1]) THEN 1 + digitRun(str, i + 1) ELSE 0

\* from_chars(first, last, int&): [ec, ptr, value]; ptr is a 0-based index and value
\* is the value assigned to the int (it keeps its initial 0 when ec is not "ok")
from_chars_int(str) ==
    LET neg  == Len(str) > 0 /\ str[1] = 45
        from == IF neg THEN 1 ELSE 0
    IN  Once(digitRun(str, from), LAMBDA n :
        Once(BigFromDigits(substr(str, from, n), <<>>), LAMBDA mag :
        Once(BigFromInt(INT_MAX), LAMBDA max :
            IF n = 0 THEN [ec |-> "invalid_argument", ptr |-> 0, value |-> 0]
            ELSE IF ~neg /\ BigLess(max, mag)
            THEN [ec |-> "result_out_of_range", ptr |-> from + n, value |-> 0]
            ELSE IF neg /\ BigLess(BigAdd(max, <<1>>), mag)
            THEN [ec |-> "result_out_of_range", ptr |-> from + n, value |-> 0]
            ELSE [ec |-> "ok", ptr |-> from + n,
                  value |-> IF ~neg THEN BigToInt(mag)
                            ELSE IF BigLess(max, mag) THEN (-INT_MAX) - 1
                            ELSE -BigToInt(mag)])))

\* from_chars(first, last, std::size_t&): [ec, ptr, value]
from_chars_size_t(str) ==
    Once(digitRun(str, 0), LAMBDA n :
    Once(BigFromDigits(substr(str, 0, n), <<>>), LAMBDA val :
        IF n = 0 THEN [ec |-> "invalid_argument", ptr |-> 0, value |-> <<>>]
        ELSE IF ~FitsSizeT(val) THEN [ec |-> "result_out_of_range", ptr |-> n, value |-> <<>>]
        ELSE [ec |-> "ok", ptr |-> n, value |-> val]))

---------------------------------------------------------------------------
(* stringUtils.cpp.  A function that throws std::invalid_argument returns  *)
(* [err |-> its what()]; the one-argument overloads pass field "?",        *)
(* line -1, column -1 and an empty context.                                *)

\* parseInt(value): [err, value]
parseInt(value) ==
    Once(from_chars_int(value), LAMBDA r :
        IF r.ec # "ok" \/ r.ptr # Len(value) \/ r.value < 0
        THEN [err |-> ConfigParseError(
                          M_Line \o to_string(-1) \o M_Column \o to_string(-1)
                              \o M_InvalidNumberFor \o M_Unknown \o M_QuoteColon \o value
                              \o M_Arrow),
              value |-> 0]
        ELSE [err |-> NoError, value |-> r.value])

\* multiplier * number as the machine computes it
SizeMultiply(number, multiplier) == size_t(BigMul(number, multiplier))

\* parseByteSize(value): [err, value]
parseByteSize(value) ==
    IF value = <<>>
    THEN [err |-> ConfigParseError(
                      M_Line \o to_string(-1) \o M_Column \o to_string(-1)
                          \o M_EmptySizeFor \o M_Unknown \o <<39>> \o M_Arrow),
          value |-> <<>>]
    ELSE LET suffix      == value[Len(value)]
             popped      == SubSeq(value, 1, Len(value) - 1)
             isK         == suffix = 107 \/ suffix = 75
             isM         == suffix = 109 \/ suffix = 77
             isG         == suffix = 103 \/ suffix = 71
             multiplier  == IF isK THEN BigFromInt(1024)
                            ELSE IF isM THEN BigFromInt(1024 * 1024)
                            ELSE IF isG THEN BigMul(BigFromInt(1024 * 1024), BigFromInt(1024))
                            ELSE BigFromInt(1)
             number_part == IF isK \/ isM \/ isG THEN popped ELSE value
         IN  Once(from_chars_size_t(number_part), LAMBDA r :
             IF r.ec # "ok" \/ r.ptr # Len(number_part)
             THEN [err |-> ConfigParseError(
                               M_Line \o to_string(-1) \o M_Column \o to_string(-1)
                                   \o M_InvalidSizeFormatFor \o M_Unknown \o M_QuoteColon
                                   \o value \o M_Arrow),
                   value |-> <<>>]
             ELSE [err |-> NoError, value |-> SizeMultiply(r.value, multiplier)])

---------------------------------------------------------------------------
(* token.cpp: debugTokenType.                                              *)

debugTokenType(type) ==
    CASE type = "IDENTIFIER" -> T_IDENTIFIER
      [] type = "NUMBER" -> T_NUMBER
      [] type = "STRING" -> T_STRING
      [] type = "LBRACE" -> T_LBRACE
      [] type = "RBRACE" -> T_RBRACE
      [] type = "SEMICOLON" -> T_SEMICOLON
      [] type = "END_OF_FILE" -> T_END_OF_FILE
      [] type = "KEYWORD_SERVER" -> T_KEYWORD_SERVER
      [] type = "KEYWORD_LOCATION" -> T_KEYWORD_LOCATION
      [] type = "KEYWORD_LISTEN" -> T_KEYWORD_LISTEN
      [] type = "KEYWORD_HOST" -> T_KEYWORD_HOST
      [] type = "KEYWORD_ROOT" -> T_KEYWORD_ROOT
      [] type = "KEYWORD_INDEX" -> T_KEYWORD_INDEX
      [] type = "KEYWORD_AUTOINDEX" -> T_KEYWORD_AUTOINDEX
      [] type = "KEYWORD_METHODS" -> T_KEYWORD_METHODS
      [] type = "KEYWORD_UPLOAD_STORE" -> T_KEYWORD_UPLOAD_STORE
      [] type = "KEYWORD_RETURN" -> T_KEYWORD_RETURN
      [] type = "KEYWORD_ERROR_PAGE" -> T_KEYWORD_ERROR_PAGE
      [] type = "KEYWORD_CLIENT_MAX_BODY_SIZE" -> T_KEYWORD_CLIENT_MAX_BODY_SIZE
      [] type = "KEYWORD_CGI_EXTENSION" -> T_KEYWORD_CGI_EXTENSION
      [] OTHER -> T_UNKNOWN

---------------------------------------------------------------------------
(* Config model: Server.cpp, Location.hpp / Location.cpp, Config.cpp.      *)

\* the empty std::map<int, std::string>
EmptyMap == [c \in {} |-> <<>>]

\* Server::Server
Server ==
    [port |-> 80, host |-> S_DefaultHost, server_names |-> <<>>, error_pages |-> EmptyMap,
     client_max_body_size |-> BigFromInt(1 * 1024 * 1024), locations |-> <<>>]

setPort(s, port) == [s EXCEPT !.port = port]

setHost(s, host) == [s EXCEPT !.host = host]

addServerName(s, name) == [s EXCEPT !.server_names = Append(@, toLower(name))]

\* std::any_of over _server_names with s == name
hasServerName(s, name) == \E i \in 1..Len(s.server_names) : s.server_names[i] = name

\* an insert that keeps the path a code already has
setErrorPage_keepFirst(s, code, path) ==
    [s EXCEPT !.error_pages =
        [c \in (DOMAIN @) \cup {code} |-> IF c \in DOMAIN @ THEN @[c] ELSE path]]

setErrorPage(s, code, path) ==
    [s EXCEPT !.error_pages =
        [c \in (DOMAIN @) \cup {code} |-> IF c = code THEN path ELSE @[c]]]

setClientMaxBodySize(s, size) == [s EXCEPT !.client_max_body_size = size]

addLocation(s, loc) == [s EXCEPT !.locations = Append(@, loc)]

\* Location::Location
Location ==
    [path |-> <<>>, methods |-> {}, root |-> <<>>, autoindex |-> FALSE, redirect |-> <<>>,
     return_code |-> 0, upload_store |-> <<>>, index_files |-> <<>>, cgi_extensions |-> <<>>]

setPath(loc, path) == [loc EXCEPT !.path = path]

addMethod(loc, method) == [loc EXCEPT !.methods = @ \cup {method}]

setRoot(loc, root) == [loc EXCEPT !.root = root]

setAutoindex(loc, enabled) == [loc EXCEPT !.autoindex = enabled]

setRedirect(loc, target, code) == [loc EXCEPT !.redirect = target, !.return_code = code]

setUploadStore(loc, path) == [loc EXCEPT !.upload_store = path]

\* declared in include/core/Location.hpp and used by the tests; the definition is in
\* no source file: the entry is appended to the ordered list
addIndexFile(loc, idx) == [loc EXCEPT !.index_files = Append(@, idx)]

addCgiExtension(loc, ext) == [loc EXCEPT !.cgi_extensions = Append(@, ext)]

\* an insertion at the front of the vector
addServer_atFront(cfg, s) == <<s>> \o cfg

\* Config::addServer, on the std::vector<Server>
addServer(cfg, s) == Append(cfg, s)

---------------------------------------------------------------------------
(* directive_handler_table.cpp.  A handler returns [err, obj]: the error   *)
(* it throws (if any) and the Server / Location as it leaves it.           *)

\* the error requireArgCount throws, or NoError
requireArgCount(args, expected, directive, line, column) ==
    IF Len(args) # expected
    THEN ConfigParseError(
             formatError(M_Directive \o directive \o M_TakesExactly \o to_string(expected)
                             \o M_ArgumentsButGot \o to_string(Len(args)), line, column))
    ELSE NoError

\* the error requireMinArgCount throws, or NoError
requireMinArgCount(args, min, directive, line, column) ==
    IF Len(args) < min
    THEN ConfigParseError(
             formatError(M_Directive \o directive \o M_RequiresAtLeast \o to_string(min)
                             \o M_ArgumentsButGot \o to_string(Len(args)), line, column))
    ELSE NoError

\* the listen handler with the upper bound of the port range off by one
listen_handler_offByOne(s, v, line, column) ==
    LET arity == requireArgCount(v, 1, K_listen, line, column)
    IN  IF arity.thrown THEN [err |-> arity, obj |-> s]
        \* parseInt throws std::invalid_argument for every failure of from_chars
        ELSE Once(parseInt(v[1]), LAMBDA r :
            IF r.err.thrown
            THEN [err |-> ConfigParseError(
                              formatError(M_InvalidPortNumber \o v[1], line, column)),
                  obj |-> s]
            ELSE IF r.value < 0 \/ r.value > 65536
            THEN [err |-> ConfigParseError(
                              formatError(M_PortOutOfValidRange \o v[1], line, column)),
                  obj |-> s]
            ELSE [err |-> NoError, obj |-> setPort(s, r.value)])

listen_handler(s, v, line, column) ==
    LET arity == requireArgCount(v, 1, K_listen, line, column)
    IN  IF arity.thrown THEN [err |-> arity, obj |-> s]
        \* parseInt throws std::invalid_argument for every failure of from_chars
        ELSE Once(parseInt(v[1]), LAMBDA r :
            IF r.err.thrown
            THEN [err |-> ConfigParseError(
                              formatError(M_InvalidPortNumber \o v[1], line, column)),
                  obj |-> s]
            ELSE IF r.value < 0 \/ r.value > 65535
            THEN [err |-> ConfigParseError(
                              formatError(M_PortOutOfValidRange \o v[1], line, column)),
                  obj |-> s]
            ELSE [err |-> NoError, obj |-> setPort(s, r.value)])

\* a host handler that also puts the port back to its default
host_handler_resetsPort(s, v, line, column) ==
    LET arity == requireArgCount(v, 1, K_host, line, column)
    IN  IF arity.thrown THEN [err |-> arity, obj |-> s]
        ELSE [err |-> NoError, obj |-> setPort(setHost(s, v[1]), 80)]

host_handler(s, v, line, column) ==
    LET arity == requireArgCount(v, 1, K_host, line, column)
    IN  IF arity.thrown THEN [err |-> arity, obj |-> s]
        ELSE [err |-> NoError, obj |-> setHost(s, v[1])]

RECURSIVE addServerNames(_, _)
addServerNames(s, v) ==
    IF v = <<>> THEN s ELSE addServerNames(addServerName(s, Head(v)), Tail(v))

server_name_handler(s, v, line, column) ==
    LET arity == requireMinArgCount(v, 1, K_server_name, line, column)
    IN  IF arity.thrown THEN [err |-> arity, obj |-> s]
        ELSE [err |-> NoError, obj |-> addServerNames(s, v)]

client_max_body_size_handler(s, v, line, column) ==
    LET arity == requireArgCount(v, 1, K_client_max_body_size, line, column)
    IN  IF arity.thrown THEN [err |-> arity, obj |-> s]
        ELSE Once(parseByteSize(v[1]), LAMBDA r :
            IF r.err.thrown THEN [err |-> r.err, obj |-> s]
            ELSE [err |-> NoError, obj |-> setClientMaxBodySize(s, r.value)])

\* for (i = 0; i + 1 < v.size(); ++i) s.setErrorPage(parseInt(v[i]), uri), from index i
RECURSIVE setErrorPages(_, _, _, _)
setErrorPages(s, v, i, uri) ==
    IF i + 1 < Len(v)
    THEN Once(parseInt(v[i + 1]), LAMBDA r :
             IF r.err.thrown THEN [err |-> r.err, obj |-> s]
             ELSE setErrorPages(setErrorPage(s, r.value, uri), v, i + 1, uri))
    ELSE [err |-> NoError, obj |-> s]

error_page_handler(s, v, line, column) ==
    LET arity == requireMinArgCount(v, 2, K_error_page, line, column)
    IN  IF arity.thrown THEN [err |-> arity, obj |-> s]
        ELSE setErrorPages(s, v, 0, v[Len(v)])

\* the keys of the map of serverHandlers()
serverHandlers == {K_listen, K_host, K_server_name, K_client_max_body_size, K_error_page}

\* it->second(target, values, line, column, ctx) for the entry `name` of serverHandlers()
serverHandler(name, s, v, line, column) ==
    CASE name = K_listen -> listen_handler(s, v, line, column)
      [] name = K_host -> host_handler(s, v, line, column)
      [] name = K_server_name -> server_name_handler(s, v, line, column)
      [] name = K_client_max_body_size -> client_max_body_size_handler(s, v, line, column)
      [] name = K_error_page -> error_page_handler(s, v, line, column)

root_handler(loc, v, line, column) ==
    LET arity == requireArgCount(v, 1, K_root, line, column)
    IN  IF arity.thrown THEN [err |-> arity, obj |-> loc]
        ELSE [err |-> NoError, obj |-> setRoot(loc, v[1])]

\* the splitting loop without the piece after the last comma
RECURSIVE splitOnCommas_noLastPiece(_, _)
splitOnCommas_noLastPiece(raw, start) ==
    LET end == find(raw, 44, start)
    IN  IF end # -1
        THEN LET piece == substr(raw, start, end - start)
             IN  (IF piece # <<>> THEN <<piece>> ELSE <<>>)
                     \o splitOnCommas_noLastPiece(raw, end + 1)
        ELSE <<>>

\* the pieces of raw between commas from 0-based index start on, empty pieces dropped:
\* the while loop over raw.find(',', start) and the substr(start) after it
RECURSIVE splitOnCommas(_, _)
splitOnCommas(raw, start) ==
    LET end == find(raw, 44, start)
    IN  IF end # -1
        THEN LET piece == substr(raw, start, end - start)
             IN  (IF piece # <<>> THEN <<piece>> ELSE <<>>) \o splitOnCommas(raw, end + 1)
        ELSE LET piece == substr(raw, start, Len(raw) - start)
             IN  IF piece # <<>> THEN <<piece>> ELSE <<>>

RECURSIVE addIndexFiles(_, _)
addIndexFiles(loc, pieces) ==
    IF pieces = <<>> THEN loc ELSE addIndexFiles(addIndexFile(loc, Head(pieces)), Tail(pieces))

\* for (const std::string& raw : args) of the index handler
RECURSIVE indexArgs(_, _)
indexArgs(loc, args) ==
    IF args = <<>> THEN loc
    ELSE indexArgs(addIndexFiles(loc, splitOnCommas(Head(args), 0)), Tail(args))

index_handler(loc, args, line, column) ==
    LET arity == requireMinArgCount(args, 1, K_index, line, column)
    IN  IF arity.thrown THEN [err |-> arity, obj |-> loc]
        ELSE [err |-> NoError, obj |-> indexArgs(loc, args)]

autoindex_handler(loc, v, line, column) ==
    LET arity == requireArgCount(v, 1, K_autoindex, line, column)
    IN  IF arity.thrown THEN [err |-> arity, obj |-> loc]
        ELSE IF v[1] = S_on THEN [err |-> NoError, obj |-> setAutoindex(loc, TRUE)]
        ELSE IF v[1] = S_off THEN [err |-> NoError, obj |-> setAutoindex(loc, FALSE)]
        ELSE [err |-> ConfigParseError(formatError(M_InvalidAutoindex \o v[1], line, column)),
              obj |-> loc]

valid_methods ==
    {S_GET, S_HEAD, S_POST, S_PUT, S_DELETE, S_CONNECT, S_OPTIONS, S_TRACE, S_PATCH}

\* for (const auto& m : v) of the methods handler
RECURSIVE addMethods(_, _, _, _)
addMethods(loc, v, line, column) ==
    IF v = <<>> THEN [err |-> NoError, obj |-> loc]
    ELSE IF Head(v) \notin valid_methods
    THEN [err |-> ConfigParseError(
                      formatError(M_InvalidHttpMethod \o Head(v), line, column)),
          obj |-> loc]
    ELSE addMethods(addMethod(loc, Head(v)), Tail(v), line, column)

\* a methods handler that adds every argument without looking it up in valid_methods
methods_handler_unchecked(loc, v, line, column) ==
    IF v = <<>>
    THEN [err |-> ConfigParseError(formatError(M_MethodsRequiresOne, line, column)),
          obj |-> loc]
    ELSE [err |-> NoError, obj |-> [loc EXCEPT !.methods = @ \cup {v[i] : i \in 1..Len(v)}]]

methods_handler(loc, v, line, column) ==
    IF v = <<>>
    THEN [err |-> ConfigParseError(formatError(M_MethodsRequiresOne, line, column)),
          obj |-> loc]
    ELSE addMethods(loc, v, line, column)

upload_store_handler(loc, v, line, column) ==
    LET arity == requireArgCount(v, 1, K_upload_store, line, column)
    IN  IF arity.thrown THEN [err |-> arity, obj |-> loc]
        ELSE [err |-> NoError, obj |-> setUploadStore(loc, v[1])]

RECURSIVE addCgiExtensions(_, _)
addCgiExtensions(loc, pieces) ==
    IF pieces = <<>> THEN loc
    ELSE addCgiExtensions(addCgiExtension(loc, Head(pieces)), Tail(pieces))

\* for (const std::string& raw : args) of the cgi_extension handler
RECURSIVE cgiExtensionArgs(_, _)
cgiExtensionArgs(loc, args) ==
    IF args = <<>> THEN loc
    ELSE cgiExtensionArgs(addCgiExtensions(loc, splitOnCommas(Head(args), 0)), Tail(args))

cgi_extension_handler(loc, args, line, column) ==
    LET arity == requireMinArgCount(args, 1, K_cgi_extension, line, column)
    IN  IF arity.thrown THEN [err |-> arity, obj |-> loc]
        ELSE [err |-> NoError, obj |-> cgiExtensionArgs(loc, args)]

return_handler(loc, v, line, column) ==
    LET arity == requireArgCount(v, 2, K_return, line, column)
    IN  IF arity.thrown THEN [err |-> arity, obj |-> loc]
        ELSE Once(parseInt(v[1]), LAMBDA r :
            IF r.err.thrown THEN [err |-> r.err, obj |-> loc]
            ELSE [err |-> NoError, obj |-> setRedirect(loc, v[2], r.value)])

\* the keys of the map of locationHandlers()
locationHandlers ==
    {K_root, K_index, K_autoindex, K_methods, K_upload_store, K_cgi_extension, K_return}

locationHandler(name, loc, v, line, column) ==
    CASE name = K_root -> root_handler(loc, v, line, column)
      [] name = K_index -> index_handler(loc, v, line, column)
      [] name = K_autoindex -> autoindex_handler(loc, v, line, column)
      [] name = K_methods -> methods_handler(loc, v, line, column)
      [] name = K_upload_store -> upload_store_handler(loc, v, line, column)
      [] name = K_cgi_extension -> cgi_extension_handler(loc, v, line, column)
      [] name = K_return -> return_handler(loc, v, line, column)

---------------------------------------------------------------------------
(* server_utils.cpp: findMatchingServer.  A returned reference is the      *)
(* index of the server in the vector together with the server; a thrown    *)
(* std::runtime_error is a record holding its what() string.               *)

\* M_NoMatchingServer: "No matching server found for port "
M_NoMatchingServer == <<78, 111, 32, 109, 97, 116, 99, 104, 105, 110, 103, 32, 115, 101, 114, 118, 101, 114, 32, 102, 111, 117, 110, 100, 32, 102, 111, 114, 32, 112, 111, 114, 116, 32>>

\* one of the two range-for loops, from the server at index i (1-based) on: the index of
\* the server it returns, 0 when it runs to the end; pass 1 also asks for the name
RECURSIVE findMatchingServer_pass(_, _, _, _, _)
findMatchingServer_pass(servers, port, host_name, byName, i) ==
    IF i > Len(servers) THEN 0
    ELSE IF servers[i].port = port /\ (byName => hasServerName(servers[i], host_name))
    THEN i
    ELSE findMatchingServer_pass(servers, port, host_name, byName, i + 1)

\* what is returned for the index a pass stopped at
ServerAt(servers, i) == [err |-> NoError, index |-> i, server |-> servers[i]]

\* the lookup without its first pass
findMatchingServer_portOnly(servers, port, host_name) ==
    Let(findMatchingServer_pass(servers, port, host_name, FALSE, 1), LAMBDA second :
        IF second # 0 THEN ServerAt(servers, second)
        ELSE [err |-> [thrown |-> TRUE, what |-> M_NoMatchingServer \o to_string(port)],
              index |-> 0, server |-> Server])

findMatchingServer(servers, port, host_name) ==
    Let(findMatchingServer_pass(servers, port, host_name, TRUE, 1), LAMBDA first :
        IF first # 0 THEN ServerAt(servers, first)
        ELSE Let(findMatchingServer_pass(servers, port, host_name, FALSE, 1), LAMBDA second :
                 IF second # 0 THEN ServerAt(servers, second)
                 ELSE [err |-> [thrown |-> TRUE,
                                what |-> M_NoMatchingServer \o to_string(port)],
                       index |-> 0, server |-> Server]))

---------------------------------------------------------------------------
(* ConfigParser.cpp.  toks is _tokens and p is _pos; an operation that can *)
(* throw returns [pos, err, ...] with pos the cursor when it returned or   *)
(* threw.  The context window of an error is not modelled.                 *)

kRepeatableServerDirectives == {K_error_page}

kRepeatableLocationDirectives == {K_methods}

\* argument types that take in the keywords
kArgTokenTypes_withKeywords ==
    TokenType \ {"LBRACE", "RBRACE", "SEMICOLON", "END_OF_FILE"}

kArgTokenTypes == {"STRING", "NUMBER", "IDENTIFIER"}

\* checkDuplicateDirective without the insertion into `seen`
checkDuplicateDirective_noInsert(name, seenSet, repeatable) ==
    IF name \in repeatable THEN [ok |-> TRUE, seen |-> seenSet]
    ELSE [ok |-> name \notin seenSet, seen |-> seenSet]

\* [ok, seen]: the value returned and the seen set afterwards
checkDuplicateDirective(name, seenSet, repeatable) ==
    IF name \in repeatable THEN [ok |-> TRUE, seen |-> seenSet]
    ELSE [ok |-> name \notin seenSet, seen |-> seenSet \cup {name}]

isAtEnd(toks, p) == p >= Len(toks) \/ toks[p + 1].type = "END_OF_FILE"

\* _tokens.at(_pos)
current(toks, p) == toks[p + 1]

\* an advance() without the isAtEnd() check
advance_unchecked(toks, p) == p + 1

\* an advance() that leaves the cursor where it is
advance_stuck(toks, p) == p

\* the cursor after advance(); advance() returns current() at that cursor
advance(toks, p) == IF ~isAtEnd(toks, p) THEN p + 1 ELSE p

expect(toks, p, expected, context) ==
    IF isAtEnd(toks, p) \/ toks[p + 1].type # expected
    THEN LET actual == IF isAtEnd(toks, p) THEN toks[Len(toks)] ELSE toks[p + 1]
         IN  [pos |-> p,
              err |-> ConfigParseError(
                          formatError(M_Expected \o debugTokenType(expected) \o M_ButGot
                                          \o debugTokenType(actual.type) \o M_For \o context,
                                      actual.line, actual.column))]
    ELSE [pos |-> p + 1, err |-> NoError]

\* "A or B or C" for the types of expectOneOf's message
RECURSIVE joinTypes(_)
joinTypes(types) ==
    IF Len(types) = 1 THEN debugTokenType(types[1])
    ELSE debugTokenType(Head(types)) \o M_Or \o joinTypes(Tail(types))

\* [pos, err, token]: token is the Token returned
expectOneOf(toks, p, types, context) ==
    LET actual == current(toks, p).type
    IN  IF \E i \in 1..Len(types) : actual = types[i]
        THEN [pos |-> advance(toks, p), err |-> NoError,
              token |-> current(toks, advance(toks, p))]
        ELSE [pos |-> p,
              err |-> ConfigParseError(
                          formatError(M_Expected \o joinTypes(types) \o M_For \o context
                                          \o M_ButGot \o debugTokenType(actual),
                                      current(toks, p).line, current(toks, p).column)),
              token |-> NoToken]

\* [pos, values]
RECURSIVE collectArgs(_, _, _)
collectArgs(toks, p, validTypes) ==
    IF ~isAtEnd(toks, p) /\ current(toks, p).type \in validTypes
    THEN Let(collectArgs(toks, advance(toks, p), validTypes), LAMBDA rest :
             [pos |-> rest.pos, values |-> <<current(toks, p).value>> \o rest.values])
    ELSE [pos |-> p, values |-> <<>>]

\* a parseDirective<Server> that passes over a name without a handler
parseDirective_Server_anyName(target, key, values, line, column) ==
    LET name == toLower(key.value)
    IN  IF name \notin serverHandlers
        THEN [err |-> NoError, obj |-> target]
        ELSE Once(serverHandler(name, target, values, line, column), LAMBDA r :
                 IF r.err.thrown
                 THEN [err |-> ConfigParseError(formatError(r.err.what, line, column)),
                       obj |-> r.obj]
                 ELSE r)

\* parseDirective<Server>: [err, obj].  Every exception a handler throws is a
\* std::invalid_argument (ConfigParseError derives from it), so the catch clause
\* formats each of them once more.
parseDirective_Server(target, key, values, line, column) ==
    LET name == toLower(key.value)
    IN  IF name \notin serverHandlers
        THEN [err |-> ConfigParseError(
                          formatError(M_UnknownDirective \o key.value \o M_Quote, line, column)),
              obj |-> target]
        ELSE Once(serverHandler(name, target, values, line, column), LAMBDA r :
                 IF r.err.thrown
                 THEN [err |-> ConfigParseError(formatError(r.err.what, line, column)),
                       obj |-> r.obj]
                 ELSE r)

\* parseDirective<Location>: [err, obj]
parseDirective_Location(target, key, values, line, column) ==
    LET name == toLower(key.value)
    IN  IF name \notin locationHandlers
        THEN [err |-> ConfigParseError(
                          formatError(M_UnknownDirective \o key.value \o M_Quote, line, column)),
              obj |-> target]
        ELSE Once(locationHandler(name, target, values, line, column), LAMBDA r :
                 IF r.err.thrown
                 THEN [err |-> ConfigParseError(formatError(r.err.what, line, column)),
                       obj |-> r.obj]
                 ELSE r)

\* a parseServerDirective that applies the handler whether or not a ';' follows
parseServerDirective_optionalSemicolon(toks, p, s) ==
    LET key == current(toks, p)
    IN  Once(collectArgs(toks, advance(toks, p), kArgTokenTypes), LAMBDA args :
        Once(expect(toks, args.pos, "SEMICOLON", X_SemicolonAfterServerDirective), LAMBDA semi :
            Once(parseDirective_Server(s, key, args.values, key.line, key.column),
                LAMBDA d : [pos |-> IF semi.err.thrown THEN args.pos ELSE semi.pos,
                            err |-> d.err, obj |-> d.obj])))

\* [pos, err, obj]
parseServerDirective(toks, p, s) ==
    LET key == current(toks, p)
    IN  Once(collectArgs(toks, advance(toks, p), kArgTokenTypes), LAMBDA args :
        Once(expect(toks, args.pos, "SEMICOLON", X_SemicolonAfterServerDirective), LAMBDA semi :
            IF semi.err.thrown THEN [pos |-> semi.pos, err |-> semi.err, obj |-> s]
            ELSE Once(parseDirective_Server(s, key, args.values, key.line, key.column),
                     LAMBDA d : [pos |-> semi.pos, err |-> d.err, obj |-> d.obj])))

\* [pos, err, obj]
parseLocationDirective(toks, p, loc) ==
    LET key == current(toks, p)
    IN  Once(collectArgs(toks, advance(toks, p), kArgTokenTypes), LAMBDA args :
        Once(expect(toks, args.pos, "SEMICOLON", X_SemicolonAfterLocationDirective), LAMBDA semi :
            IF semi.err.thrown THEN [pos |-> semi.pos, err |-> semi.err, obj |-> loc]
            ELSE Once(parseDirective_Location(loc, key, args.values, key.line, key.column),
                     LAMBDA d : [pos |-> semi.pos, err |-> d.err, obj |-> d.obj])))

\* parseLocation up to its while loop: [pos, err, obj]
parseLocation_open(toks, p) ==
    Once(expect(toks, p, "KEYWORD_LOCATION", X_LocationBlock), LAMBDA kw :
        IF kw.err.thrown THEN [pos |-> kw.pos, err |-> kw.err, obj |-> Location]
        ELSE Once(expectOneOf(toks, kw.pos, <<"STRING", "IDENTIFIER">>, X_LocationPath),
                 LAMBDA path :
            IF path.err.thrown THEN [pos |-> path.pos, err |-> path.err, obj |-> Location]
            ELSE Once(expect(toks, path.pos, "LBRACE", X_StartOfLocationBlock), LAMBDA brace :
                     [pos |-> brace.pos, err |-> brace.err,
                      obj |-> setPath(Location, path.token.value)])))

\* the condition of the while loops of parseServer and parseLocation
inBlock(toks, p) == ~isAtEnd(toks, p) /\ current(toks, p).type # "RBRACE"

\* one iteration of the while loop of parseLocation: [pos, err, obj, seen]
parseLocation_iteration(toks, p, loc, seenSet) ==
    LET name == toLower(current(toks, p).value)
    IN  Once(checkDuplicateDirective(name, seenSet, kRepeatableLocationDirectives), LAMBDA dup :
            IF ~dup.ok
            THEN [pos |-> p,
                  err |-> ConfigParseError(
                              formatError(M_DuplicateDirective \o name \o M_Quote,
                                          current(toks, p).line, current(toks, p).column)),
                  obj |-> loc, seen |-> dup.seen]
            ELSE Once(parseLocationDirective(toks, p, loc), LAMBDA d :
                     [pos |-> d.pos, err |-> d.err, obj |-> d.obj, seen |-> dup.seen]))

\* parseLocation after its while loop: [pos, err]
parseLocation_close(toks, p) == expect(toks, p, "RBRACE", X_EndOfLocationBlock)

RECURSIVE parseLocation_loop(_, _, _, _)
parseLocation_loop(toks, p, loc, seenSet) ==
    IF inBlock(toks, p)
    THEN Let(parseLocation_iteration(toks, p, loc, seenSet), LAMBDA it :
             IF it.err.thrown THEN [pos |-> it.pos, err |-> it.err, obj |-> it.obj]
             ELSE parseLocation_loop(toks, it.pos, it.obj, it.seen))
    ELSE Let(parseLocation_close(toks, p), LAMBDA close :
             [pos |-> close.pos, err |-> close.err, obj |-> loc])

\* ConfigParser::parseLocation: [pos, err, obj]
parseLocation(toks, p) ==
    Once(parseLocation_open(toks, p), LAMBDA open :
        IF open.err.thrown THEN open
        ELSE parseLocation_loop(toks, open.pos, open.obj, {}))

\* parseServer up to its while loop: [pos, err]
parseServer_open(toks, p) ==
    Once(expect(toks, p, "KEYWORD_SERVER", X_ServerBlock), LAMBDA kw :
        IF kw.err.thrown THEN kw
        ELSE expect(toks, kw.pos, "LBRACE", X_StartOfServerBlock))

\* the else branch of the while loop of parseServer: [pos, err, obj, seen]
parseServer_directive(toks, p, s, seenSet) ==
    LET name == toLower(current(toks, p).value)
    IN  Once(checkDuplicateDirective(name, seenSet, kRepeatableServerDirectives), LAMBDA dup :
            IF ~dup.ok
            THEN [pos |-> p,
                  err |-> ConfigParseError(
                              formatError(M_DuplicateDirective \o name \o M_Quote,
                                          current(toks, p).line, current(toks, p).column)),
                  obj |-> s, seen |-> dup.seen]
            ELSE Once(parseServerDirective(toks, p, s), LAMBDA d :
                     [pos |-> d.pos, err |-> d.err, obj |-> d.obj, seen |-> dup.seen]))

\* one iteration of the while loop of parseServer: [pos, err, obj, seen]
parseServer_iteration(toks, p, s, seenSet) ==
    IF current(toks, p).type = "KEYWORD_LOCATION"
    THEN Once(parseLocation(toks, p), LAMBDA l :
             [pos |-> l.pos, err |-> l.err,
              obj |-> IF l.err.thrown THEN s ELSE addLocation(s, l.obj), seen |-> seenSet])
    ELSE parseServer_directive(toks, p, s, seenSet)

\* parseServer after its while loop: [pos, err]
parseServer_close(toks, p) == expect(toks, p, "RBRACE", X_EndOfServerBlock)

RECURSIVE parseServer_loop(_, _, _, _)
parseServer_loop(toks, p, s, seenSet) ==
    IF inBlock(toks, p)
    THEN Let(parseServer_iteration(toks, p, s, seenSet), LAMBDA it :
             IF it.err.thrown THEN [pos |-> it.pos, err |-> it.err, obj |-> it.obj]
             ELSE parseServer_loop(toks, it.pos, it.obj, it.seen))
    ELSE Let(parseServer_close(toks, p), LAMBDA close :
             [pos |-> close.pos, err |-> close.err, obj |-> s])

\* ConfigParser::parseServer: [pos, err, obj]
parseServer(toks, p) ==
    Once(parseServer_open(toks, p), LAMBDA open :
        IF open.err.thrown THEN [pos |-> open.pos, err |-> open.err, obj |-> Server]
        ELSE parseServer_loop(toks, open.pos, Server, {}))

\* the error parseConfig throws before parsing a server block at cursor p, or NoError
parseConfig_expectServer(toks, p) ==
    IF current(toks, p).type # "KEYWORD_SERVER"
    THEN ConfigParseError(
             formatError(M_ExpectedServerBlock, current(toks, p).line, current(toks, p).column))
    ELSE NoError

\* the error parseConfig throws after a server block that ended at cursor p, or NoError
parseConfig_afterServer(toks, p) ==
    IF ~isAtEnd(toks, p) /\ current(toks, p).type # "KEYWORD_SERVER"
           /\ current(toks, p).type # "END_OF_FILE"
    THEN ConfigParseError(
             formatError(M_UnexpectedAfterServer, current(toks, p).line,
                         current(toks, p).column))
    ELSE NoError

\* the while loop of parseConfig: [pos, err, config]; no Config is returned on a throw
RECURSIVE parseConfig_loop(_, _, _)
parseConfig_loop(toks, p, cfg) ==
    IF isAtEnd(toks, p) THEN [pos |-> p, err |-> NoError, config |-> cfg]
    ELSE IF parseConfig_expectServer(toks, p).thrown
    THEN [pos |-> p, err |-> parseConfig_expectServer(toks, p), config |-> <<>>]
    ELSE Let(parseServer(toks, p), LAMBDA s :
             IF s.err.thrown THEN [pos |-> s.pos, err |-> s.err, config |-> <<>>]
             ELSE Let(parseConfig_afterServer(toks, s.pos), LAMBDA after :
                      IF after.thrown THEN [pos |-> s.pos, err |-> after, config |-> <<>>]
                      ELSE parseConfig_loop(toks, s.pos, addServer(cfg, s.obj))))

\* an entry check that lets an empty token stream through
parseConfig_empty_accepted(toks, p) == NoError

\* the error parseConfig throws on entry, or NoError
parseConfig_empty(toks, p) ==
    IF isAtEnd(toks, p) THEN ConfigParseError(formatError(M_EmptyConfiguration, 1, 1))
    ELSE NoError

\* ConfigParser::parseConfig on a fresh parser: [pos, err, config]
parseConfig(toks) ==
    IF parseConfig_empty(toks, 0).thrown
    THEN [pos |-> 0, err |-> parseConfig_empty(toks, 0), config |-> <<>>]
    ELSE parseConfig_loop(toks, 0, <<>>)

\* ConfigParser(source).parseConfig(): [err, config]
ConfigParser_parseConfig(source) ==
    Once(tokenize(source), LAMBDA t :
        IF t.err.thrown THEN [err |-> t.err, config |-> <<>>]
        ELSE Once(parseConfig(t.tokens), LAMBDA c : [err |-> c.err, config |-> c.config]))

---------------------------------------------------------------------------
(* The front-end as a state machine: the caller constructs a ConfigParser  *)
(* on `input` and calls parseConfig(); one action per loop iteration or    *)
(* straight-line stretch of ConfigParser.cpp.                              *)

NoResult == [status |-> "none", err |-> NoError, config |-> <<>>]

NoCall == [fn |-> "none"]

\* the program before the constructor runs on the source `text`
Start(text) ==
    /\ input = text
    /\ tokens = <<>>
    /\ pos = 0
    /\ pc = "construct"
    /\ config = <<>>
    /\ server = Server
    /\ location = Location
    /\ seen = [parseServer |-> {}, parseLocation |-> {}]
    /\ result = NoResult
    /\ call = NoCall
    /\ ret = NoCall

\* an exception that hands the caller the servers completed so far
Throws_partialConfig(err, p) ==
    /\ pc' = "thrown"
    /\ pos' = p
    /\ result' = [status |-> "thrown", err |-> err, config |-> config]

\* an exception leaves parseConfig (or the constructor) with the cursor at p
Throws(err, p) ==
    /\ pc' = "thrown"
    /\ pos' = p
    /\ result' = [status |-> "thrown", err |-> err, config |-> <<>>]

\* ConfigParser::ConfigParser: _tokens = _tokenizer.tokenize()
Construct ==
    /\ pc = "construct"
    /\ LET t == tokenize(input)
       IN  IF t.err.thrown
           THEN /\ Throws(t.err, pos)
                /\ UNCHANGED tokens
           ELSE /\ tokens' = t.tokens
                /\ pc' = "parseConfig"
                /\ UNCHANGED <<pos, result>>
    /\ UNCHANGED <<input, config, server, location, seen, call, ret>>

\* parseConfig: `Config config;` and the empty-configuration check
ParseConfig_enter ==
    /\ pc = "parseConfig"
    /\ IF parseConfig_empty(tokens, pos).thrown
       THEN /\ Throws(parseConfig_empty(tokens, pos), pos)
            /\ UNCHANGED config
       ELSE /\ pc' = "parseConfig_loop"
            /\ config' = <<>>
            /\ UNCHANGED <<pos, result>>
    /\ UNCHANGED <<input, tokens, server, location, seen, call, ret>>

\* parseConfig: the loop condition fails, `return config`
ParseConfig_return ==
    /\ pc = "parseConfig_loop"
    /\ isAtEnd(tokens, pos)
    /\ pc' = "returned"
    /\ result' = [status |-> "returned", err |-> NoError, config |-> config]
    /\ UNCHANGED <<input, tokens, pos, config, server, location, seen, call, ret>>

\* parseConfig: the 'server' check, then parseServer up to its loop
ParseServer_open ==
    /\ pc = "parseConfig_loop"
    /\ ~isAtEnd(tokens, pos)
    /\ LET open == parseServer_open(tokens, pos)
       IN  IF parseConfig_expectServer(tokens, pos).thrown
           THEN /\ Throws(parseConfig_expectServer(tokens, pos), pos)
                /\ UNCHANGED <<server, seen>>
           ELSE IF open.err.thrown
           THEN /\ Throws(open.err, open.pos)
                /\ UNCHANGED <<server, seen>>
           ELSE /\ pc' = "parseServer_loop"
                /\ pos' = open.pos
                /\ server' = Server
                /\ seen' = [seen EXCEPT !.parseServer = {}]
                /\ UNCHANGED result
    /\ UNCHANGED <<input, tokens, config, location, call, ret>>

\* parseServer: one iteration of the loop on a directive
ParseServer_directive ==
    /\ pc = "parseServer_loop"
    /\ inBlock(tokens, pos)
    /\ current(tokens, pos).type # "KEYWORD_LOCATION"
    /\ LET it == parseServer_directive(tokens, pos, server, seen.parseServer)
       IN  IF it.err.thrown
           THEN /\ Throws(it.err, it.pos)
                \* the locals as the exception finds them
                /\ server' = it.obj
                /\ seen' = [seen EXCEPT !.parseServer = it.seen]
           ELSE /\ pos' = it.pos
                /\ server' = it.obj
                /\ seen' = [seen EXCEPT !.parseServer = it.seen]
                /\ UNCHANGED <<pc, result>>
    /\ UNCHANGED <<input, tokens, config, location, call, ret>>

\* parseServer: an iteration on a location block enters parseLocation, up to its loop
ParseLocation_open ==
    /\ pc = "parseServer_loop"
    /\ inBlock(tokens, pos)
    /\ current(tokens, pos).type = "KEYWORD_LOCATION"
    /\ LET open == parseLocation_open(tokens, pos)
       IN  IF open.err.thrown
           THEN /\ Throws(open.err, open.pos)
                \* `Location location;` as the exception finds it; `seen` is not declared yet
                /\ location' = open.obj
                /\ UNCHANGED seen
           ELSE /\ pc' = "parseLocation_loop"
                /\ pos' = open.pos
                /\ location' = open.obj
                /\ seen' = [seen EXCEPT !.parseLocation = {}]
                /\ UNCHANGED result
    /\ UNCHANGED <<input, tokens, config, server, call, ret>>

\* parseLocation: one iteration of the loop
ParseLocation_directive ==
    /\ pc = "parseLocation_loop"
    /\ inBlock(tokens, pos)
    /\ LET it == parseLocation_iteration(tokens, pos, location, seen.parseLocation)
       IN  IF it.err.thrown
           THEN /\ Throws(it.err, it.pos)
                \* the locals as the exception finds them
                /\ location' = it.obj
                /\ seen' = [seen EXCEPT !.parseLocation = it.seen]
           ELSE /\ pos' = it.pos
                /\ location' = it.obj
                /\ seen' = [seen EXCEPT !.parseLocation = it.seen]
                /\ UNCHANGED <<pc, result>>
    /\ UNCHANGED <<input, tokens, config, server, call, ret>>

\* parseLocation: the closing brace, `return location`, server.addLocation(...)
ParseLocation_close ==
    /\ pc = "parseLocation_loop"
    /\ ~inBlock(tokens, pos)
    /\ LET close == parseLocation_close(tokens, pos)
       IN  IF close.err.thrown
           THEN /\ Throws(close.err, close.pos)
                /\ UNCHANGED server
           ELSE /\ pc' = "parseServer_loop"
                /\ pos' = close.pos
                /\ server' = addLocation(server, location)
                /\ UNCHANGED result
    /\ UNCHANGED <<input, tokens, config, location, seen, call, ret>>

\* parseServer: the closing brace, `return server`, config.addServer(...) and the
\* check of the token after the block
ParseServer_close ==
    /\ pc = "parseServer_loop"
    /\ ~inBlock(tokens, pos)
    /\ LET close == parseServer_close(tokens, pos)
       IN  IF close.err.thrown
           THEN /\ Throws(close.err, close.pos)
                /\ UNCHANGED config
           ELSE IF parseConfig_afterServer(tokens, close.pos).thrown
           THEN /\ Throws(parseConfig_afterServer(tokens, close.pos), close.pos)
                /\ config' = addServer(config, server)
           ELSE /\ pc' = "parseConfig_loop"
                /\ pos' = close.pos
                /\ config' = addServer(config, server)
                /\ UNCHANGED result
    /\ UNCHANGED <<input, tokens, server, location, seen, call, ret>>

Next ==
    \/ Construct
    \/ ParseConfig_enter
    \/ ParseConfig_return
    \/ ParseServer_open
    \/ ParseServer_directive
    \/ ParseLocation_open
    \/ ParseLocation_directive
    \/ ParseLocation_close
    \/ ParseServer_close

---------------------------------------------------------------------------
(* The configuration sources the parser is run on.  Texts are built from   *)
(* words so that each family covers the cases of one group of directives.  *)

\* W_server_open: "server {"
W_server_open == <<115, 101, 114, 118, 101, 114, 32, 123>>
\* W_location_open: "location "
W_location_open == <<108, 111, 99, 97, 116, 105, 111, 110, 32>>
\* W_open: " {"
W_open == <<32, 123>>
\* W_close: " }"
W_close == <<32, 125>>
\* W_sp: " "
W_sp == <<32>>
\* W_semi: ";"
W_semi == <<59>>
\* W_a: "a"
W_a == <<97>>
\* W_b: "b"
W_b == <<98>>
\* W_slash: "/"
W_slash == <<47>>
\* W_path_a: "/a"
W_path_a == <<47, 97>>
\* W_path_b: "/b"
W_path_b == <<47, 98>>
\* W_path_cgi: "/cgi"
W_path_cgi == <<47, 99, 103, 105>>
\* W_path_quoted: ""/my docs""
W_path_quoted == <<34, 47, 109, 121, 32, 100, 111, 99, 115, 34>>
\* W_path_single: "'x'"
W_path_single == <<39, 120, 39>>
\* W_80: "80"
W_80 == <<56, 48>>
\* W_81: "81"
W_81 == <<56, 49>>
\* W_404: "404"
W_404 == <<52, 48, 52>>
\* W_500: "500"
W_500 == <<53, 48, 48>>
\* W_err404: "/e404"
W_err404 == <<47, 101, 52, 48, 52>>
\* W_err500: "/e500"
W_err500 == <<47, 101, 53, 48, 48>>
\* W_root_x: "/x"
W_root_x == <<47, 120>>
\* W_root_y: "/y"
W_root_y == <<47, 121>>
\* W_LISTEN: "LISTEN"
W_LISTEN == <<76, 73, 83, 84, 69, 78>>
\* W_Host: "Host"
W_Host == <<72, 111, 115, 116>>
\* W_ERROR_PAGE: "Error_Page"
W_ERROR_PAGE == <<69, 114, 114, 111, 114, 95, 80, 97, 103, 101>>
\* W_ROOT: "ROOT"
W_ROOT == <<82, 79, 79, 84>>
\* W_Methods: "Methods"
W_Methods == <<77, 101, 116, 104, 111, 100, 115>>
\* W_minus: "-"
W_minus == <<45>>
\* W_plus_80: ""+80""
W_plus_80 == <<34, 43, 56, 48, 34>>
\* W_quoted_80: ""80""
W_quoted_80 == <<34, 56, 48, 34>>
\* W_80_space: ""80 ""
W_80_space == <<34, 56, 48, 32, 34>>
\* W_0x50: "0x50"
W_0x50 == <<48, 120, 53, 48>>
\* W_80k: "80k"
W_80k == <<56, 48, 107>>
\* W_empty_string: """"
W_empty_string == <<34, 34>>
\* W_8_dot_0: "8.0"
W_8_dot_0 == <<56, 46, 48>>
\* I_S1: "server { listen 8080; host 127.0.0.1; }"
I_S1 == <<115, 101, 114, 118, 101, 114, 32, 123, 32, 108, 105, 115, 116, 101, 110, 32, 56, 48, 56, 48, 59, 32, 104, 111, 115, 116, 32, 49, 50, 55, 46, 48, 46, 48, 46, 49, 59, 32, 125>>
\* I_S2: "server {\n  listen 80;\n  error_page 404 /err/404.html;\n  error_page 500 502 /err/5xx.html;\n}"
I_S2 == <<115, 101, 114, 118, 101, 114, 32, 123, 10, 32, 32, 108, 105, 115, 116, 101, 110, 32, 56, 48, 59, 10, 32, 32, 101, 114, 114, 111, 114, 95, 112, 97, 103, 101, 32, 52, 48, 52, 32, 47, 101, 114, 114, 47, 52, 48, 52, 46, 104, 116, 109, 108, 59, 10, 32, 32, 101, 114, 114, 111, 114, 95, 112, 97, 103, 101, 32, 53, 48, 48, 32, 53, 48, 50, 32, 47, 101, 114, 114, 47, 53, 120, 120, 46, 104, 116, 109, 108, 59, 10, 125>>
\* I_S3: "server { listen 80; location /cgi { methods GET POST; cgi_extension .php,.py; } }"
I_S3 == <<115, 101, 114, 118, 101, 114, 32, 123, 32, 108, 105, 115, 116, 101, 110, 32, 56, 48, 59, 32, 108, 111, 99, 97, 116, 105, 111, 110, 32, 47, 99, 103, 105, 32, 123, 32, 109, 101, 116, 104, 111, 100, 115, 32, 71, 69, 84, 32, 80, 79, 83, 84, 59, 32, 99, 103, 105, 95, 101, 120, 116, 101, 110, 115, 105, 111, 110, 32, 46, 112, 104, 112, 44, 46, 112, 121, 59, 32, 125, 32, 125>>
\* I_S4: "server { listen 80; host a; host b; }"
I_S4 == <<115, 101, 114, 118, 101, 114, 32, 123, 32, 108, 105, 115, 116, 101, 110, 32, 56, 48, 59, 32, 104, 111, 115, 116, 32, 97, 59, 32, 104, 111, 115, 116, 32, 98, 59, 32, 125>>
\* I_S5: "server { location / { autoindex maybe; } }"
I_S5 == <<115, 101, 114, 118, 101, 114, 32, 123, 32, 108, 111, 99, 97, 116, 105, 111, 110, 32, 47, 32, 123, 32, 97, 117, 116, 111, 105, 110, 100, 101, 120, 32, 109, 97, 121, 98, 101, 59, 32, 125, 32, 125>>
\* I_S6: "server { client_max_body_size 10mb; }"
I_S6 == <<115, 101, 114, 118, 101, 114, 32, 123, 32, 99, 108, 105, 101, 110, 116, 95, 109, 97, 120, 95, 98, 111, 100, 121, 95, 115, 105, 122, 101, 32, 49, 48, 109, 98, 59, 32, 125>>
\* I_S7: "server { host "abc"
I_S7 == <<115, 101, 114, 118, 101, 114, 32, 123, 32, 104, 111, 115, 116, 32, 34, 97, 98, 99>>
\* I_S8: the bytes EF BB BF, then "SERVER { LISTEN 8080; }"
I_S8 == <<239, 187, 191, 83, 69, 82, 86, 69, 82, 32, 123, 32, 76, 73, 83, 84, 69, 78, 32, 56, 48, 56, 48, 59, 32, 125>>
\* I_Empty: ""
I_Empty == <<>>
\* I_OnlyComment: "# nothing\n"
I_OnlyComment == <<35, 32, 110, 111, 116, 104, 105, 110, 103, 10>>
\* I_NoServer: "listen 80;"
I_NoServer == <<108, 105, 115, 116, 101, 110, 32, 56, 48, 59>>
\* I_TrailingWord: "server { listen 80; } listen"
I_TrailingWord == <<115, 101, 114, 118, 101, 114, 32, 123, 32, 108, 105, 115, 116, 101, 110, 32, 56, 48, 59, 32, 125, 32, 108, 105, 115, 116, 101, 110>>
\* I_LateTokenizerError: "server { listen 80; } server { host a; } $"
I_LateTokenizerError == <<115, 101, 114, 118, 101, 114, 32, 123, 32, 108, 105, 115, 116, 101, 110, 32, 56, 48, 59, 32, 125, 32, 115, 101, 114, 118, 101, 114, 32, 123, 32, 104, 111, 115, 116, 32, 97, 59, 32, 125, 32, 36>>
\* I_LateHandlerError: "server { listen 80; } server { location / { root /x; } listen 70000; }"
I_LateHandlerError == <<115, 101, 114, 118, 101, 114, 32, 123, 32, 108, 105, 115, 116, 101, 110, 32, 56, 48, 59, 32, 125, 32, 115, 101, 114, 118, 101, 114, 32, 123, 32, 108, 111, 99, 97, 116, 105, 111, 110, 32, 47, 32, 123, 32, 114, 111, 111, 116, 32, 47, 120, 59, 32, 125, 32, 108, 105, 115, 116, 101, 110, 32, 55, 48, 48, 48, 48, 59, 32, 125>>
\* I_LateLocationError: "server { listen 80; location /a { root /x; } location /b { autoindex maybe; } }"
I_LateLocationError == <<115, 101, 114, 118, 101, 114, 32, 123, 32, 108, 105, 115, 116, 101, 110, 32, 56, 48, 59, 32, 108, 111, 99, 97, 116, 105, 111, 110, 32, 47, 97, 32, 123, 32, 114, 111, 111, 116, 32, 47, 120, 59, 32, 125, 32, 108, 111, 99, 97, 116, 105, 111, 110, 32, 47, 98, 32, 123, 32, 97, 117, 116, 111, 105, 110, 100, 101, 120, 32, 109, 97, 121, 98, 101, 59, 32, 125, 32, 125>>
\* I_LateStructuralError: "server { listen 80; } server { host a }"
I_LateStructuralError == <<115, 101, 114, 118, 101, 114, 32, 123, 32, 108, 105, 115, 116, 101, 110, 32, 56, 48, 59, 32, 125, 32, 115, 101, 114, 118, 101, 114, 32, 123, 32, 104, 111, 115, 116, 32, 97, 32, 125>>
\* I_MissingBrace: "server { listen 80; location /a { root /x; }"
I_MissingBrace == <<115, 101, 114, 118, 101, 114, 32, 123, 32, 108, 105, 115, 116, 101, 110, 32, 56, 48, 59, 32, 108, 111, 99, 97, 116, 105, 111, 110, 32, 47, 97, 32, 123, 32, 114, 111, 111, 116, 32, 47, 120, 59, 32, 125>>
\* I_UnknownDirective: "server { listen 80; } server { colour blue; }"
I_UnknownDirective == <<115, 101, 114, 118, 101, 114, 32, 123, 32, 108, 105, 115, 116, 101, 110, 32, 56, 48, 59, 32, 125, 32, 115, 101, 114, 118, 101, 114, 32, 123, 32, 99, 111, 108, 111, 117, 114, 32, 98, 108, 117, 101, 59, 32, 125>>
\* I_LocationNoPath: "server { location { } }"
I_LocationNoPath == <<115, 101, 114, 118, 101, 114, 32, 123, 32, 108, 111, 99, 97, 116, 105, 111, 110, 32, 123, 32, 125, 32, 125>>
\* I_LocationNoBrace: "server { location /a root /x; }"
I_LocationNoBrace == <<115, 101, 114, 118, 101, 114, 32, 123, 32, 108, 111, 99, 97, 116, 105, 111, 110, 32, 47, 97, 32, 114, 111, 111, 116, 32, 47, 120, 59, 32, 125>>
\* I_ServerNoBrace: "server listen 80; }"
I_ServerNoBrace == <<115, 101, 114, 118, 101, 114, 32, 108, 105, 115, 116, 101, 110, 32, 56, 48, 59, 32, 125>>

RECURSIVE Concat(_)
Concat(parts) == IF parts = <<>> THEN <<>> ELSE Head(parts) \o Concat(Tail(parts))

\* "name arg1 ... argn;"
DirectiveText(name, args) ==
    name \o Concat([i \in 1..Len(args) |-> W_sp \o args[i]]) \o W_semi

\* "server { item1 ... itemn }"
ServerText(items) ==
    W_server_open \o Concat([i \in 1..Len(items) |-> W_sp \o items[i]]) \o W_close

\* "location path { item1 ... itemn }"
LocationText(path, items) ==
    W_location_open \o path \o W_open
        \o Concat([i \in 1..Len(items) |-> W_sp \o items[i]]) \o W_close

\* the sequences over S of length 0..n
SeqsUpTo(S, n) == UNION {[1..k -> S] : k \in 0..n}

ScenarioTexts ==
    {I_S1, I_S2, I_S3, I_S4, I_S5, I_S6, I_S7, I_S8, I_Empty, I_OnlyComment, I_NoServer,
     I_TrailingWord, I_LateTokenizerError, I_LateHandlerError, I_LateLocationError,
     I_LateStructuralError, I_MissingBrace, I_UnknownDirective, I_LocationNoPath,
     I_LocationNoBrace, I_ServerNoBrace}

\* location blocks whose path is an identifier or a quoted string
PathWords == {W_slash, W_path_a, W_path_cgi, W_a, W_path_quoted, W_path_single}

PathTexts ==
    {ServerText(<<LocationText(P, items)>>) :
        P \in PathWords, items \in {<<>>, <<DirectiveText(K_root, <<W_root_x>>)>>}}

\* the longest run of directives in a generated block
MaxDirectives == 3

ServerDirectiveTexts ==
    {DirectiveText(K_listen, <<W_80>>), DirectiveText(W_LISTEN, <<W_81>>),
     DirectiveText(K_host, <<W_a>>),
     DirectiveText(K_error_page, <<W_404, W_err404>>),
     DirectiveText(W_ERROR_PAGE, <<W_500, W_err500>>)}

LocationDirectiveTexts ==
    {DirectiveText(K_root, <<W_root_x>>), DirectiveText(W_ROOT, <<W_root_y>>),
     DirectiveText(K_methods, <<S_GET>>), DirectiveText(W_Methods, <<S_POST>>),
     DirectiveText(K_autoindex, <<S_on>>)}

\* one block holding a run of directives, some of them repeated
RepeatedDirectiveTexts ==
    {ServerText(items) : items \in SeqsUpTo(ServerDirectiveTexts, MaxDirectives)}
        \cup {ServerText(<<LocationText(W_path_a, items)>>) :
                 items \in SeqsUpTo(LocationDirectiveTexts, MaxDirectives)}

\* the same directives spread over two servers and two locations
SpreadDirectiveTexts ==
    LET D == {DirectiveText(K_listen, <<W_80>>), DirectiveText(K_host, <<W_a>>)}
        L == {DirectiveText(K_root, <<W_root_x>>), DirectiveText(K_methods, <<S_GET>>)}
    IN  {ServerText(<<d1, LocationText(W_path_a, <<l1>>), LocationText(W_path_b, <<l2>>), d2>>)
             \o W_sp \o ServerText(<<d3>>) :
             d1 \in D, d2 \in D, d3 \in D, l1 \in L, l2 \in L}

DuplicateTexts == RepeatedDirectiveTexts \cup SpreadDirectiveTexts

\* the longest run of digits generated as a port
MaxPortDigits == 5

\* W_0: "0"
W_0 == <<48>>
\* W_3: "3"
W_3 == <<51>>
\* W_5: "5"
W_5 == <<53>>
\* W_6: "6"
W_6 == <<54>>
\* W_INT_MAX: "2147483647"
W_INT_MAX == <<50, 49, 52, 55, 52, 56, 51, 54, 52, 55>>
\* W_INT_MAX_plus_1: "2147483648"
W_INT_MAX_plus_1 == <<50, 49, 52, 55, 52, 56, 51, 54, 52, 56>>
\* W_2_32_plus_80: "4294967376"
W_2_32_plus_80 == <<52, 50, 57, 52, 57, 54, 55, 51, 55, 54>>
\* W_20_nines: "99999999999999999999"
W_20_nines == <<57, 57, 57, 57, 57, 57, 57, 57, 57, 57, 57, 57, 57, 57, 57, 57, 57, 57, 57, 57>>
\* W_1: "1"
W_1 == <<49>>
\* W_00: "00"
W_00 == <<48, 48>>
\* W_65535: "65535"
W_65535 == <<54, 53, 53, 51, 53>>
\* W_65536: "65536"
W_65536 == <<54, 53, 53, 51, 54>>

PortDigits == {W_0, W_3, W_5, W_6}

\* listen arguments: runs of digits around the boundaries, signed and malformed numbers
ListenWords ==
    {Concat(ds) : ds \in SeqsUpTo(PortDigits, MaxPortDigits) \ {<<>>}}
        \cup {W_minus \o d : d \in {W_0, W_00, W_1, W_80, W_65535, W_65536}}
        \cup {W_INT_MAX, W_INT_MAX_plus_1, W_2_32_plus_80, W_20_nines, W_plus_80, W_quoted_80,
              W_80_space, W_0x50, W_80k, W_empty_string, W_8_dot_0, W_a, W_minus}

ListenTexts == {ServerText(<<DirectiveText(K_listen, <<w>>)>>) : w \in ListenWords}

\* the largest number of arguments given to a directive of the arity texts
MaxArgs == 3

\* every directive of the two registries with 0..MaxArgs arguments
ArityTexts ==
    {ServerText(<<DirectiveText(d, [i \in 1..n |-> W_a])>>) :
        d \in serverHandlers, n \in 0..MaxArgs}
        \cup {ServerText(<<LocationText(W_slash, <<DirectiveText(d, [i \in 1..n |-> W_a])>>)>>) :
                 d \in locationHandlers, n \in 0..MaxArgs}

\* the most zeros appended to a generated size
MaxZeros == 2

\* W_16: "16"
W_16 == <<49, 54>>
\* W_2_34: "17179869184"
W_2_34 == <<49, 55, 49, 55, 57, 56, 54, 57, 49, 56, 52>>
\* W_2_54: "18014398509481984"
W_2_54 == <<49, 56, 48, 49, 52, 51, 57, 56, 53, 48, 57, 52, 56, 49, 57, 56, 52>>
\* W_k: "k"
W_k == <<107>>
\* W_K: "K"
W_K == <<75>>
\* W_m: "m"
W_m == <<109>>
\* W_M: "M"
W_M == <<77>>
\* W_g: "g"
W_g == <<103>>
\* W_G: "G"
W_G == <<71>>
\* W_x: "x"
W_x == <<120>>

\* client_max_body_size arguments: digits, zeros appended, then a suffix or none
SizeWords ==
    {d \o Concat([i \in 1..z |-> W_0]) \o sfx :
        d \in {W_0, W_1, W_16, W_2_34, W_2_54}, z \in 0..MaxZeros,
        sfx \in {<<>>, W_k, W_K, W_m, W_M, W_g, W_G, W_b, W_x}}
        \cup {W_k, W_G, W_empty_string, W_minus \o W_1, W_8_dot_0}

SizeTexts ==
    {ServerText(<<DirectiveText(K_client_max_body_size, <<w>>)>>) : w \in SizeWords}

\* W_php: ".php"
W_php == <<46, 112, 104, 112>>
\* W_py: ".py"
W_py == <<46, 112, 121>>
\* W_comma: ","
W_comma == <<44>>
\* I_IndexCommaJoined: "server { location / { index a.html,b.html; } }"
I_IndexCommaJoined == <<115, 101, 114, 118, 101, 114, 32, 123, 32, 108, 111, 99, 97, 116, 105, 111, 110, 32, 47, 32, 123, 32, 105, 110, 100, 101, 120, 32, 97, 46, 104, 116, 109, 108, 44, 98, 46, 104, 116, 109, 108, 59, 32, 125, 32, 125>>

\* unquoted arguments made of pieces joined by commas
CommaJoinedTexts == {I_S3, I_IndexCommaJoined}

---------------------------------------------------------------------------
(* Server blocks that hold a run of error_page directives.                 *)

\* W_502: "502"
W_502 == <<53, 48, 50>>
\* W_0404: "0404"
W_0404 == <<48, 52, 48, 52>>
\* W_err_404_html: "/err/404.html"
W_err_404_html == <<47, 101, 114, 114, 47, 52, 48, 52, 46, 104, 116, 109, 108>>
\* W_err_5xx_html: "/err/5xx.html"
W_err_5xx_html == <<47, 101, 114, 114, 47, 53, 120, 120, 46, 104, 116, 109, 108>>

\* the argument lists of the error_page directives: codes, then the path
ErrorPageDirectives ==
    {<<W_404, W_err404>>, <<W_500, W_502, W_err500>>, <<W_404, W_500, W_root_x>>,
     <<W_0404, W_root_y>>}

ErrorPageRuns == SeqsUpTo(ErrorPageDirectives, MaxDirectives) \ {<<>>}

\* "server { error_page ...; ... }"
ErrorPageTextOf(run) ==
    ServerText([i \in 1..Len(run) |-> DirectiveText(K_error_page, run[i])])

\* each run with its text
ErrorPageCases == {[text |-> ErrorPageTextOf(run), run |-> run] : run \in ErrorPageRuns}

ErrorPageTexts == {c.text : c \in ErrorPageCases}

---------------------------------------------------------------------------
(* Location blocks that hold a run of methods and autoindex directives.    *)

\* W_get: "get"
W_get == <<103, 101, 116>>
\* W_ON: "ON"
W_ON == <<79, 78>>

MethodsAndAutoindexDirectives ==
    {DirectiveText(K_methods, <<S_GET, S_POST>>),
     DirectiveText(K_methods, <<S_DELETE, W_get>>),
     DirectiveText(K_methods, <<S_PUT, S_HEAD, S_CONNECT, S_OPTIONS, S_TRACE, S_PATCH>>),
     DirectiveText(K_autoindex, <<S_on>>),
     DirectiveText(K_autoindex, <<S_off>>),
     DirectiveText(K_autoindex, <<W_ON>>),
     DirectiveText(K_autoindex, <<W_1>>)}

\* "server { location /a { ... } }"
MethodsAndAutoindexTexts ==
    {ServerText(<<LocationText(W_path_a, items)>>) :
         items \in SeqsUpTo(MethodsAndAutoindexDirectives, MaxDirectives)}

---------------------------------------------------------------------------
(* Texts for the top level: what stands before, at and after the place of  *)
(* the first server block.                                                 *)

\* U_none: ""
U_none == <<>>
\* U_comment: "# c\n"
U_comment == <<35, 32, 99, 10>>
\* U_blank: " \n "
U_blank == <<32, 10, 32>>
\* U_block_comment: "/* a\nb */\n"
U_block_comment == <<47, 42, 32, 97, 10, 98, 32, 42, 47, 10>>
\* U_server: "server { }"
U_server == <<115, 101, 114, 118, 101, 114, 32, 123, 32, 125>>
\* U_server_listen: "server { listen 80; }"
U_server_listen == <<115, 101, 114, 118, 101, 114, 32, 123, 32, 108, 105, 115, 116, 101, 110, 32, 56, 48, 59, 32, 125>>
\* U_listen: "listen 80;"
U_listen == <<108, 105, 115, 116, 101, 110, 32, 56, 48, 59>>
\* U_lbrace: "{"
U_lbrace == <<123>>
\* U_rbrace: "}"
U_rbrace == <<125>>
\* U_semicolon: ";"
U_semicolon == <<59>>
\* U_quoted_server: ""server" { }"
U_quoted_server == <<34, 115, 101, 114, 118, 101, 114, 34, 32, 123, 32, 125>>
\* U_word: "a"
U_word == <<97>>
\* U_after_server: " server { }"
U_after_server == <<32, 115, 101, 114, 118, 101, 114, 32, 123, 32, 125>>
\* U_after_rbrace: " }"
U_after_rbrace == <<32, 125>>
\* U_after_semicolon: " ;"
U_after_semicolon == <<32, 59>>
\* U_after_listen: " listen"
U_after_listen == <<32, 108, 105, 115, 116, 101, 110>>
\* U_after_lbrace: " {"
U_after_lbrace == <<32, 123>>
\* U_after_number: " 80"
U_after_number == <<32, 56, 48>>
\* U_after_string: " "x""
U_after_string == <<32, 34, 120, 34>>
\* U_after_comment: " # end"
U_after_comment == <<32, 35, 32, 101, 110, 100>>

TopLevelTexts ==
    {before \o first \o after :
        before \in {U_none, U_comment, U_blank, U_block_comment},
        first \in {U_none, U_server, U_server_listen, U_listen, U_lbrace, U_rbrace, U_semicolon,
                   U_quoted_server, U_word},
        after \in {U_none, U_after_server, U_after_rbrace, U_after_semicolon, U_after_listen,
                   U_after_lbrace, U_after_number, U_after_string, U_after_comment}}

---------------------------------------------------------------------------
(* Directives of every name written in a server block and in a location    *)
(* block, with and without their semicolon; blocks nested in a location.   *)

\* W_foo: "foo"
W_foo == <<102, 111, 111>>

DirectiveNames ==
    {K_listen, K_host, K_server_name, K_client_max_body_size, K_error_page,
     K_root, K_index, K_autoindex, K_methods, K_upload_store, K_cgi_extension, K_return,
     K_server, K_location, W_foo, W_ROOT, W_LISTEN}

\* "name arg1 ... argn;" or, unterminated, "name arg1 ... argn"
PlacedDirectives ==
    {name \o Concat([i \in 1..Len(args) |-> W_sp \o args[i]]) \o term :
        name \in DirectiveNames,
        args \in {<<>>, <<W_80>>, <<W_80, W_a>>},
        term \in {W_semi, <<>>}}

NestedBlockTexts ==
    {ServerText(<<LocationText(W_path_a, <<ServerText(<<>>)>>)>>),
     ServerText(<<LocationText(W_path_a, <<LocationText(W_path_b, <<>>)>>)>>)}

PlacementTexts ==
    {ServerText(<<d>>) : d \in PlacedDirectives}
        \cup {ServerText(<<LocationText(W_path_a, <<d>>)>>) : d \in PlacedDirectives}
        \cup NestedBlockTexts


\* a complete configuration, token by token
CompleteWords ==
    <<K_server, <<123>>, K_listen, W_81, W_semi, K_location, W_path_a, <<123>>, K_root,
      W_root_x, W_semi, <<125>>, K_host, W_a, W_semi, <<125>>>>

\* the words separated by spaces
TextOfWords(words) == Concat([i \in 1..Len(words) |-> words[i] \o W_sp])

\* the configuration without its word i, cut after its word i, and with its word i doubled
WithoutWord(i) ==
    TextOfWords(SubSeq(CompleteWords, 1, i - 1) \o SubSeq(CompleteWords, i + 1, Len(CompleteWords)))

CutAfterWord(i) == TextOfWords(SubSeq(CompleteWords, 1, i))

WithWordTwice(i) ==
    TextOfWords(SubSeq(CompleteWords, 1, i) \o SubSeq(CompleteWords, i, Len(CompleteWords)))

DamagedTexts ==
    {WithoutWord(i) : i \in 1..Len(CompleteWords)}
        \cup {CutAfterWord(i) : i \in 1..Len(CompleteWords)}
        \cup {WithWordTwice(i) : i \in 1..Len(CompleteWords)}

---------------------------------------------------------------------------
(* Quoted arguments and names that carry a NUL byte: a string literal may  *)
(* hold any byte but a raw newline.                                        *)

\* W_quoted_G_NUL_T: the literal "G\0T" with its quotes
W_quoted_G_NUL_T == <<34, 71, 0, 84, 34>>
\* W_quoted_o_NUL_n: the literal "o\0n" with its quotes
W_quoted_o_NUL_n == <<34, 111, 0, 110, 34>>
\* W_quoted_a_NUL_b: the literal "a\0b" with its quotes
W_quoted_a_NUL_b == <<34, 97, 0, 98, 34>>

NulTexts ==
    {ServerText(<<LocationText(W_path_a, <<DirectiveText(K_methods, <<S_GET, W_quoted_G_NUL_T>>)>>)>>),
     ServerText(<<LocationText(W_path_a, <<DirectiveText(K_autoindex, <<W_quoted_o_NUL_n>>)>>)>>),
     ServerText(<<LocationText(W_path_a, <<DirectiveText(W_quoted_a_NUL_b, <<W_1>>)>>)>>),
     ServerText(<<DirectiveText(W_quoted_a_NUL_b, <<W_1>>)>>),
     ServerText(<<DirectiveText(K_host, <<W_quoted_a_NUL_b>>)>>)}

---------------------------------------------------------------------------
(* Configurations of one or two servers, told apart by their port, each    *)
(* with a run of locations, told apart by their root.                      *)

\* the most location blocks in a generated server
MaxBlocks == 2

ServerChoices == [port : {W_80, W_81}, roots : SeqsUpTo({W_root_x, W_root_y}, MaxBlocks)]

OrderRuns == {<<s>> : s \in ServerChoices} \cup {<<s, t>> : s \in ServerChoices, t \in ServerChoices}

\* "server { listen P; location /a { root R1; } location /a { root R2; } ... }"
OrderServerText(sv) ==
    ServerText(<<DirectiveText(K_listen, <<sv.port>>)>>
                   \o [i \in 1..Len(sv.roots) |->
                          LocationText(W_path_a, <<DirectiveText(K_root, <<sv.roots[i]>>)>>)])

OrderTextOf(run) == Concat([i \in 1..Len(run) |-> OrderServerText(run[i]) \o W_sp])

\* each run with its text
OrderCases == {[text |-> OrderTextOf(run), run |-> run] : run \in OrderRuns}

\* I_Lists: "server { server_name B.example a.example; location /a { index i.html "j.html,k.html" l.html; cgi_extension ".php,,.py" .rb; } }"
I_Lists == <<115, 101, 114, 118, 101, 114, 32, 123, 32, 115, 101, 114, 118, 101, 114, 95, 110, 97, 109, 101, 32, 66, 46, 101, 120, 97, 109, 112, 108, 101, 32, 97, 46, 101, 120, 97, 109, 112, 108, 101, 59, 32, 108, 111, 99, 97, 116, 105, 111, 110, 32, 47, 97, 32, 123, 32, 105, 110, 100, 101, 120, 32, 105, 46, 104, 116, 109, 108, 32, 34, 106, 46, 104, 116, 109, 108, 44, 107, 46, 104, 116, 109, 108, 34, 32, 108, 46, 104, 116, 109, 108, 59, 32, 99, 103, 105, 95, 101, 120, 116, 101, 110, 115, 105, 111, 110, 32, 34, 46, 112, 104, 112, 44, 44, 46, 112, 121, 34, 32, 46, 114, 98, 59, 32, 125, 32, 125>>
\* W_B_example: "b.example"
W_B_example == <<98, 46, 101, 120, 97, 109, 112, 108, 101>>
\* W_a_example: "a.example"
W_a_example == <<97, 46, 101, 120, 97, 109, 112, 108, 101>>
\* W_i_html: "i.html"
W_i_html == <<105, 46, 104, 116, 109, 108>>
\* W_j_html: "j.html"
W_j_html == <<106, 46, 104, 116, 109, 108>>
\* W_k_html: "k.html"
W_k_html == <<107, 46, 104, 116, 109, 108>>
\* W_l_html: "l.html"
W_l_html == <<108, 46, 104, 116, 109, 108>>
\* W_rb: ".rb"
W_rb == <<46, 114, 98>>

OrderTexts == {c.text : c \in OrderCases} \cup {I_Lists}

Inputs ==
    ScenarioTexts \cup PathTexts \cup DuplicateTexts \cup ListenTexts \cup ArityTexts
        \cup SizeTexts \cup CommaJoinedTexts \cup ErrorPageTexts
        \cup MethodsAndAutoindexTexts \cup OrderTexts
        \cup TopLevelTexts \cup PlacementTexts
        \cup DamagedTexts \cup NulTexts

Init == \E text \in Inputs : Start(text)

Spec == Init /\ [][Next]_vars

---------------------------------------------------------------------------
(* Properties of the parser, checked under Spec.                           *)

\* C1: when a location block `location P { ... }` is entered, P being a String or an
\* Identifier token, the Location under construction has the lexeme of P as its path
\* (expectOneOf returns the token it matched and consumed).
C1_PathIsLexemeOfP ==
    [][(pc = "parseServer_loop" /\ pc' = "parseLocation_loop")
           => location'.path = tokens[pos + 2].value]_vars

\* The lowercased names of the directives that precede token i + 1 in the block that
\* token belongs to, read off the token stream from token i backwards (nested blocks
\* are skipped; depth counts the closing braces still to be matched).
RECURSIVE DirectivesBefore(_, _, _)
DirectivesBefore(toks, i, depth) ==
    IF i < 1 THEN {}
    ELSE IF toks[i].type = "RBRACE" THEN DirectivesBefore(toks, i - 1, depth + 1)
    ELSE IF toks[i].type = "LBRACE"
    THEN IF depth = 0 THEN {} ELSE DirectivesBefore(toks, i - 1, depth - 1)
    ELSE (IF depth = 0 /\ i > 1
              /\ toks[i - 1].type \in {"LBRACE", "SEMICOLON", "RBRACE"}
              /\ toks[i].type # "KEYWORD_LOCATION"
          THEN {toLower(toks[i].value)} ELSE {})
             \cup DirectivesBefore(toks, i - 1, depth)

\* the value of a string of decimal digits
RECURSIVE DecimalValue(_)
DecimalValue(digits) ==
    IF digits = <<>> THEN 0
    ELSE 10 * DecimalValue(SubSeq(digits, 1, Len(digits) - 1)) + (digits[Len(digits)] - 48)

\* the step fails with the duplicate-directive message for `name`
FailsAsDuplicateOf(name) ==
    /\ pc' = "thrown"
    /\ Contains(result'.err.what, M_DuplicateDirective \o name \o M_Quote)

FailsAsDuplicate == pc' = "thrown" /\ Contains(result'.err.what, M_DuplicateDirective)

\* a step of the server block on the directive at the cursor
C2_ServerStep ==
    LET name    == toLower(current(tokens, pos).value)
        earlier == DirectivesBefore(tokens, pos, 0)
        args    == collectArgs(tokens, pos + 1, kArgTokenTypes).values
    IN  /\ (name \in earlier /\ name # K_error_page) => FailsAsDuplicateOf(name)
        /\ (name \notin earlier \/ name = K_error_page) => ~FailsAsDuplicate
        /\ (name = K_error_page /\ pc' # "thrown") =>
               /\ DOMAIN server.error_pages \subseteq DOMAIN server'.error_pages
               /\ \A i \in 1..(Len(args) - 1) :
                      /\ DecimalValue(args[i]) \in DOMAIN server'.error_pages
                      /\ server'.error_pages[DecimalValue(args[i])] = args[Len(args)]

\* a step of the location block on the directive at the cursor
C2_LocationStep ==
    LET name    == toLower(current(tokens, pos).value)
        earlier == DirectivesBefore(tokens, pos, 0)
        args    == collectArgs(tokens, pos + 1, kArgTokenTypes).values
    IN  /\ (name \in earlier /\ name # K_methods) => FailsAsDuplicateOf(name)
        /\ (name \notin earlier \/ name = K_methods) => ~FailsAsDuplicate
        /\ (name = K_methods /\ pc' # "thrown") =>
               location'.methods = location.methods \cup {args[i] : i \in 1..Len(args)}

\* C2: in a server or location block, a directive whose name (case-insensitively) already
\* occurred in the same block fails with "Duplicate directive: '<name>'" unless it is
\* error_page (server) or methods (location); those never fail as duplicates and their
\* effects accumulate; a name that occurred only in other blocks is not a duplicate.
C2_DuplicateDirectives ==
    [][/\ (pc = "parseServer_loop" /\ inBlock(tokens, pos)
               /\ current(tokens, pos).type # "KEYWORD_LOCATION") => C2_ServerStep
       /\ (pc = "parseLocation_loop" /\ inBlock(tokens, pos)) => C2_LocationStep]_vars

\* a second listen (in another letter case) was refused after an error_page was recorded
C2_Witness ==
    /\ pc = "thrown"
    /\ Contains(result.err.what, M_DuplicateDirective \o K_listen \o M_Quote)
    /\ DOMAIN server.error_pages # {}

\* v without its leading zeros
RECURSIVE StripZeros(_)
StripZeros(v) == IF Len(v) > 1 /\ v[1] = 48 THEN StripZeros(Tail(v)) ELSE v

AllDigits(v) == v # <<>> /\ \A i \in 1..Len(v) : isdigit(v[i])

\* v is a decimal integer: an optional minus sign and at least one digit
IsDecimalInteger(v) == AllDigits(v) \/ (Len(v) > 1 /\ v[1] = 45 /\ AllDigits(Tail(v)))

\* the digits of a decimal integer, without sign and leading zeros
Magnitude(v) == StripZeros(IF v[1] = 45 THEN Tail(v) ELSE v)

\* v is a full-string decimal integer whose value is in [0, 65535]
IsPortText(v) ==
    /\ IsDecimalInteger(v)
    /\ Len(Magnitude(v)) <= 5
    /\ DecimalValue(Magnitude(v)) <= 65535
    /\ (v[1] = 45 => DecimalValue(Magnitude(v)) = 0)

\* a step of the server block on a first `listen` with exactly one argument
C3_ListenStep ==
    LET args == collectArgs(tokens, pos + 1, kArgTokenTypes).values
    IN  (/\ toLower(current(tokens, pos).value) = K_listen
         /\ K_listen \notin DirectivesBefore(tokens, pos, 0)
         /\ Len(args) = 1
         /\ tokens[pos + 3].type = "SEMICOLON")
            => IF IsPortText(args[1])
               THEN pc' # "thrown" /\ server'.port = DecimalValue(Magnitude(args[1]))
               ELSE pc' = "thrown"

\* C3: a listen directive is accepted exactly when its single argument is a full-string
\* decimal integer in [0, 65535], and the port becomes that value; every Server of a Config
\* that parseConfig returns has its port in [0, 65535].
C3_ListenPortRange ==
    [][/\ (pc = "parseServer_loop" /\ inBlock(tokens, pos)
               /\ current(tokens, pos).type # "KEYWORD_LOCATION") => C3_ListenStep
       /\ pc' = "returned" =>
              \A i \in 1..Len(result'.config) : result'.config[i].port \in 0..65535]_vars

\* a configuration was returned with the largest port
C3_Witness ==
    /\ pc = "returned"
    /\ Len(result.config) = 1
    /\ result.config[1].port = 65535

\* C4: parsing is all-or-nothing.  A run that throws hands the caller no Config (the
\* servers and locations completed before the error included) and exactly the first
\* error; after the throw nothing moves: no token is consumed, no second diagnostic
\* replaces the first.  A Config is returned only when the whole token stream was
\* consumed, and no input with a tokenizer error yields a Config.
C4_AllOrNothing ==
    [][/\ pc # "thrown"
       /\ pc' = "thrown" =>
              /\ result'.status = "thrown"
              /\ result'.config = <<>>
              /\ result'.err = ConfigParser_parseConfig(input).err
       /\ pc' = "returned" =>
              /\ result'.status = "returned"
              /\ isAtEnd(tokens, pos')
              /\ ~tokenize(input).err.thrown
              /\ ~ConfigParser_parseConfig(input).err.thrown
              /\ result'.config = ConfigParser_parseConfig(input).config]_vars

\* an error was raised after one server and one location had been completed
C4_Witness ==
    /\ pc = "thrown"
    /\ Len(config) >= 1
    /\ Len(server.locations) >= 1
    /\ result.config = <<>>

\* the declared arity of a directive: the least and the greatest number of arguments
\* (-1: no upper limit)
ArityMin(name) ==
    IF name \in {K_error_page, K_return} THEN 2 ELSE 1

ArityMax(name) ==
    IF name \in {K_listen, K_host, K_client_max_body_size, K_root, K_autoindex, K_upload_store}
    THEN 1
    ELSE IF name = K_return THEN 2
    ELSE -1

OutsideArity(name, n) == n < ArityMin(name) \/ (ArityMax(name) # -1 /\ n > ArityMax(name))

\* what() without its leading "Line X, column Y: " prefixes
RECURSIVE MessageBody(_)
MessageBody(what) ==
    IF StartsWith(what, M_Line) /\ find(what, 58, 0) # -1
    THEN MessageBody(SubSeq(what, find(what, 58, 0) + 3, Len(what)))
    ELSE what

\* the step on a first occurrence of a registered directive with a wrong number of
\* arguments fails and names the directive, the expected count and the actual count
ArityStep(registry) ==
    LET name == toLower(current(tokens, pos).value)
        n    == Len(collectArgs(tokens, pos + 1, kArgTokenTypes).values)
    IN  (/\ name \in registry
         /\ name \notin DirectivesBefore(tokens, pos, 0)
         /\ tokens[pos + 2 + n].type = "SEMICOLON"
         /\ OutsideArity(name, n))
            => /\ pc' = "thrown"
               /\ Contains(MessageBody(result'.err.what), name)
               /\ Contains(MessageBody(result'.err.what), to_string(ArityMin(name)))
               /\ Contains(MessageBody(result'.err.what), to_string(n))

\* C5: for every directive of the server and location registries and every argument
\* count outside its declared arity, parsing fails with a message that contains the
\* directive name, the expected count and the actual count.
C5_ArityMessages ==
    [][/\ (pc = "parseServer_loop" /\ inBlock(tokens, pos)
               /\ current(tokens, pos).type # "KEYWORD_LOCATION") => ArityStep(serverHandlers)
       /\ (pc = "parseLocation_loop" /\ inBlock(tokens, pos))
              => ArityStep(locationHandlers)]_vars

\* the multiplier of a size suffix, as an exact number
SuffixMultiplier(c) ==
    IF c \in {107, 75} THEN BigFromInt(1024)
    ELSE IF c \in {109, 77} THEN BigFromInt(1024 * 1024)
    ELSE BigMul(BigFromInt(1024 * 1024), BigFromInt(1024))

\* v is a digit string followed by one of k, K, m, M, g, G
IsSuffixedSize(v) ==
    /\ Len(v) > 1
    /\ v[Len(v)] \in {107, 75, 109, 77, 103, 71}
    /\ AllDigits(SubSeq(v, 1, Len(v) - 1))

\* the exact number of bytes a well-formed size denotes
ExactSize(v) ==
    IF AllDigits(v) THEN BigFromDigits(v, <<>>)
    ELSE BigMul(BigFromDigits(SubSeq(v, 1, Len(v) - 1), <<>>), SuffixMultiplier(v[Len(v)]))

\* a step of the server block on a first client_max_body_size with one argument
C6_SizeStep ==
    LET args == collectArgs(tokens, pos + 1, kArgTokenTypes).values
    IN  (/\ toLower(current(tokens, pos).value) = K_client_max_body_size
         /\ K_client_max_body_size \notin DirectivesBefore(tokens, pos, 0)
         /\ Len(args) = 1
         /\ tokens[pos + 3].type = "SEMICOLON")
            => IF AllDigits(args[1]) \/ IsSuffixedSize(args[1])
               THEN pc' # "thrown" /\ server'.client_max_body_size = ExactSize(args[1])
               ELSE pc' = "thrown"

\* C6: `client_max_body_size n<s>;` stores n * 1024, n * 1024^2 or n * 1024^3 for the
\* suffixes k/K, m/M, g/G and n without suffix, as the exact mathematical product (never
\* a value wrapped modulo 2^64); any other trailing character or an empty number fails.
C6_ExactByteSize ==
    [][(pc = "parseServer_loop" /\ inBlock(tokens, pos)
            /\ current(tokens, pos).type # "KEYWORD_LOCATION") => C6_SizeStep]_vars

\* C7: an unquoted argument made of identifier pieces joined by commas is tokenized as one
\* argument, and scenario S3 parses successfully with cgi_extensions = [".php", ".py"].
C7_CommaJoinedArgument ==
    /\ (input \in CommaJoinedTexts /\ pc # "construct")
           => \E i \in 1..Len(tokens) : Contains(tokens[i].value, W_comma)
    /\ (input = I_S3 /\ pc \in {"thrown", "returned"})
           => /\ pc = "returned"
              /\ Len(result.config) = 1
              /\ Len(result.config[1].locations) = 1
              /\ result.config[1].locations[1].cgi_extensions = <<W_php, W_py>>

---------------------------------------------------------------------------
(* More properties of the parser, checked under Spec.                      *)

\* the decimal integer v does not fit the int type
TooLargeForInt(v) ==
    /\ BigLess(BigFromInt(INT_MAX), BigFromDigits(Magnitude(v), <<>>))
    /\ ~(v[1] = 45 /\ Magnitude(v) = W_INT_MAX_plus_1)

\* the step failed with a message that contains `text`
FailsWith(text) == pc' = "thrown" /\ Contains(result'.err.what, text)

\* a step of the server block on a first `listen` with exactly one argument that is
\* not a port
C13_ListenStep ==
    LET args == collectArgs(tokens, pos + 1, kArgTokenTypes).values
    IN  (/\ toLower(current(tokens, pos).value) = K_listen
         /\ K_listen \notin DirectivesBefore(tokens, pos, 0)
         /\ Len(args) = 1
         /\ tokens[pos + 3].type = "SEMICOLON"
         /\ ~IsPortText(args[1]))
            => IF ~IsDecimalInteger(args[1])
               THEN FailsWith(M_InvalidPortNumber \o args[1])
               ELSE IF TooLargeForInt(args[1])
               THEN FailsWith(M_PortOutOfIntegerRange)
               ELSE FailsWith(M_PortOutOfValidRange)

\* C13: the listen handler distinguishes three failures: a non-numeric argument fails
\* with "Invalid port number: <v>", a digit string too large for the integer type with a
\* message containing "out of integer range", and an integer outside 0-65535 with a
\* message containing "out of valid range (0-65535)".
C13_ListenFailures ==
    [][(pc = "parseServer_loop" /\ inBlock(tokens, pos)
            /\ current(tokens, pos).type # "KEYWORD_LOCATION") => C13_ListenStep]_vars

\* the status codes and the path of the arguments of an error_page directive
CodesOf(args) == {DecimalValue(Magnitude(args[i])) : i \in 1..(Len(args) - 1)}

PathOf(args) == args[Len(args)]

\* for each code a run of error_page directives names, the path of the last one naming it
LastWins(run) ==
    [c \in UNION {CodesOf(run[i]) : i \in DOMAIN run} |->
        PathOf(run[CHOOSE i \in DOMAIN run :
                       /\ c \in CodesOf(run[i])
                       /\ \A j \in DOMAIN run : c \in CodesOf(run[j]) => j <= i])]

\* a step of the server block on an error_page directive that is accepted: its codes map
\* to its path, every other code keeps its path
C15_ErrorPageStep ==
    LET args == collectArgs(tokens, pos + 1, kArgTokenTypes).values
    IN  (toLower(current(tokens, pos).value) = K_error_page /\ pc' # "thrown")
            => server'.error_pages =
                   [c \in (DOMAIN server.error_pages) \cup CodesOf(args) |->
                       IF c \in CodesOf(args) THEN PathOf(args) ELSE server.error_pages[c]]

\* C15: each error_page directive maps every argument but its last (an integer status
\* code) to its last argument (the path); after a run of error_page directives in a
\* server block Server.error_pages holds, for each code, the path of the last directive
\* that named it; `error_page 404 /err/404.html; error_page 500 502 /err/5xx.html;` yields
\* {404 -> /err/404.html, 500 -> /err/5xx.html, 502 -> /err/5xx.html}.
C15_ErrorPagesLastWins ==
    [][/\ (pc = "parseServer_loop" /\ inBlock(tokens, pos)
               /\ current(tokens, pos).type # "KEYWORD_LOCATION") => C15_ErrorPageStep
       /\ pc' = "thrown" => input \notin ErrorPageTexts \cup {I_S2}
       /\ pc' = "returned" =>
              /\ \A c \in ErrorPageCases :
                     input = c.text =>
                         /\ Len(result'.config) = 1
                         /\ result'.config[1].error_pages = LastWins(c.run)
              /\ input = I_S2 =>
                     result'.config[1].error_pages =
                         (404 :> W_err_404_html @@ 500 :> W_err_5xx_html
                              @@ 502 :> W_err_5xx_html)]_vars

\* 404 was named three times (once as 0404) and 500 once: the last paths were returned
C15_Witness ==
    /\ pc = "returned"
    /\ input = ErrorPageTextOf(<<<<W_404, W_err404>>, <<W_404, W_500, W_root_x>>,
                                 <<W_0404, W_root_y>>>>)
    /\ result.config[1].error_pages = (404 :> W_root_y @@ 500 :> W_root_x)

\* the HTTP methods a location may list
HttpMethods ==
    {S_GET, S_HEAD, S_POST, S_PUT, S_DELETE, S_CONNECT, S_OPTIONS, S_TRACE, S_PATCH}

\* the members of an argument list, and the first of them that is not an HTTP method
Members(args) == {args[i] : i \in 1..Len(args)}

FirstNonMethod(args) ==
    args[CHOOSE i \in 1..Len(args) :
             args[i] \notin HttpMethods /\ \A j \in 1..(i - 1) : args[j] \in HttpMethods]

\* a step of the location block on a methods directive, or on a first autoindex directive with
\* one argument
C16_LocationStep ==
    LET name == toLower(current(tokens, pos).value)
        args == collectArgs(tokens, pos + 1, kArgTokenTypes).values
    IN  /\ (name = K_methods /\ args # <<>> /\ tokens[pos + 2 + Len(args)].type = "SEMICOLON")
               => IF Members(args) \subseteq HttpMethods
                  THEN pc' # "thrown" /\ location'.methods = location.methods \cup Members(args)
                  ELSE FailsWith(M_InvalidHttpMethod \o FirstNonMethod(args))
        /\ (/\ name = K_autoindex
            /\ K_autoindex \notin DirectivesBefore(tokens, pos, 0)
            /\ Len(args) = 1
            /\ tokens[pos + 3].type = "SEMICOLON")
               => IF args[1] = S_on THEN pc' # "thrown" /\ location'.autoindex
                  ELSE IF args[1] = S_off THEN pc' # "thrown" /\ ~location'.autoindex
                  ELSE FailsWith(M_InvalidAutoindex \o args[1])

\* the token that opens the block the token i + 1 is in (a block without nested blocks)
RECURSIVE BlockOpen(_, _)
BlockOpen(toks, i) == IF i < 1 \/ toks[i].type = "LBRACE" THEN i ELSE BlockOpen(toks, i - 1)

\* the location block that ends at the cursor contains `autoindex on`
ContainsAutoindexOn ==
    \E i \in (BlockOpen(tokens, pos) + 1)..pos :
        /\ tokens[i - 1].type \in {"LBRACE", "SEMICOLON"}
        /\ toLower(tokens[i].value) = K_autoindex
        /\ tokens[i + 1].value = S_on

\* C16: in every Config returned by parseConfig every entry of every Location.methods is
\* one of the nine HTTP methods (after any number of methods directives the set is the
\* union of their arguments), and Location.autoindex is true exactly when the block
\* contains `autoindex on`; any other methods member fails with "Invalid HTTP method: <v>"
\* and any other autoindex value with "Invalid value for 'autoindex': <v>".
C16_MethodsAndAutoindex ==
    [][/\ (pc = "parseLocation_loop" /\ inBlock(tokens, pos)) => C16_LocationStep
       /\ (pc = "parseServer_loop" /\ pc' = "parseLocation_loop")
              => location'.methods = {} /\ ~location'.autoindex
       /\ (pc = "parseLocation_loop" /\ pc' = "parseServer_loop")
              => /\ location.autoindex = ContainsAutoindexOn
                 /\ server'.locations = Append(server.locations, location)
       /\ pc' = "returned" =>
              \A s \in 1..Len(result'.config) :
                  \A l \in 1..Len(result'.config[s].locations) :
                      result'.config[s].locations[l].methods \subseteq HttpMethods]_vars

\* a location was returned with eight methods from two directives and autoindex on
C16_Witness ==
    /\ pc = "returned"
    /\ Len(result.config) = 1
    /\ Len(result.config[1].locations) = 1
    /\ result.config[1].locations[1].methods = HttpMethods \ {S_DELETE}
    /\ result.config[1].locations[1].autoindex

\* the non-empty pieces between the commas of an argument, in order, read byte by byte
\* from index i on (piece: the bytes of the piece being read)
RECURSIVE Pieces(_, _, _)
Pieces(arg, i, piece) ==
    IF i > Len(arg) THEN (IF piece = <<>> THEN <<>> ELSE <<piece>>)
    ELSE IF arg[i] = 44
    THEN (IF piece = <<>> THEN <<>> ELSE <<piece>>) \o Pieces(arg, i + 1, <<>>)
    ELSE Pieces(arg, i + 1, Append(piece, arg[i]))

\* the pieces of all the arguments, in order
AllPieces(args) == Concat([i \in 1..Len(args) |-> Pieces(args[i], 1, <<>>)])

\* an accepted server_name step appends its arguments, in order
C17_ServerStep ==
    LET args == collectArgs(tokens, pos + 1, kArgTokenTypes).values
    IN  (toLower(current(tokens, pos).value) = K_server_name /\ pc' # "thrown")
            => server'.server_names =
                   server.server_names \o [i \in 1..Len(args) |-> toLower(args[i])]

\* an accepted index or cgi_extension step appends the pieces of its arguments, in order
C17_LocationStep ==
    LET name == toLower(current(tokens, pos).value)
        args == collectArgs(tokens, pos + 1, kArgTokenTypes).values
    IN  /\ (name = K_index /\ pc' # "thrown")
               => location'.index_files = location.index_files \o AllPieces(args)
        /\ (name = K_cgi_extension /\ pc' # "thrown")
               => location'.cgi_extensions = location.cgi_extensions \o AllPieces(args)

\* the roots of the locations of a server, in order
RootsOf(s) == [l \in 1..Len(s.locations) |-> s.locations[l].root]

\* C17: source order is preserved: Config.servers lists the servers in the order of their
\* server blocks, each Server.locations its locations in the order of their location
\* blocks, and server_names, index_files and cgi_extensions their entries in the order
\* of the arguments and of the comma-separated pieces inside an argument.
C17_SourceOrder ==
    [][/\ (pc = "parseServer_loop" /\ inBlock(tokens, pos)
               /\ current(tokens, pos).type # "KEYWORD_LOCATION") => C17_ServerStep
       /\ (pc = "parseLocation_loop" /\ inBlock(tokens, pos)) => C17_LocationStep
       /\ (pc = "parseLocation_loop" /\ pc' = "parseServer_loop")
              => server'.locations = server.locations \o <<location>>
       /\ (pc = "parseServer_loop" /\ pc' = "parseConfig_loop")
              => config' = config \o <<server>>
       /\ pc' = "thrown" => input \notin OrderTexts
       /\ pc' = "returned" =>
              /\ \A c \in OrderCases :
                     input = c.text =>
                         /\ Len(result'.config) = Len(c.run)
                         /\ \A i \in 1..Len(c.run) :
                                /\ result'.config[i].port = DecimalValue(c.run[i].port)
                                /\ RootsOf(result'.config[i]) = c.run[i].roots
              /\ input = I_Lists =>
                     /\ result'.config[1].server_names = <<W_B_example, W_a_example>>
                     /\ result'.config[1].locations[1].index_files =
                            <<W_i_html, W_j_html, W_k_html, W_l_html>>
                     /\ result'.config[1].locations[1].cgi_extensions = <<W_php, W_py, W_rb>>]_vars

\* server 81 with locations of roots /y, /x was returned before server 80 with /x, /y
C17_Witness ==
    /\ pc = "returned"
    /\ Len(result.config) = 2
    /\ result.config[1].port = 81
    /\ RootsOf(result.config[1]) = <<W_root_y, W_root_x>>
    /\ result.config[2].port = 80
    /\ RootsOf(result.config[2]) = <<W_root_x, W_root_y>>

\* the number of blocks open before token i
DepthBefore(toks, i) ==
    Cardinality({j \in 1..(i - 1) : toks[j].type = "LBRACE"})
        - Cardinality({j \in 1..(i - 1) : toks[j].type = "RBRACE"})

\* the tokens outside every block
TopLevel(toks) == {i \in 1..Len(toks) : DepthBefore(toks, i) = 0}

\* outside the blocks the token stream holds `server` keywords, each followed by the
\* brace that opens its block, and the final END_OF_FILE
OnlyServerBlocks(toks) ==
    \A i \in TopLevel(toks) :
        \/ toks[i].type = "KEYWORD_SERVER" /\ toks[i + 1].type = "LBRACE"
        \/ toks[i].type = "LBRACE" /\ i > 1 /\ toks[i - 1].type = "KEYWORD_SERVER"
                /\ (i - 1) \in TopLevel(toks)
        \/ toks[i].type = "END_OF_FILE" /\ i = Len(toks)

ServerBlocks(toks) == {i \in TopLevel(toks) : toks[i].type = "KEYWORD_SERVER"}

\* C18: at the top level parseConfig accepts only one or more server blocks followed by
\* END_OF_FILE: an input without tokens fails with "Empty configuration" reported at line
\* 1, column 1; a first token that is not `server` fails with "Expected 'server' block";
\* a token other than `server` or END_OF_FILE after a server block fails with
\* "Unexpected token after server block".
C18_TopLevel ==
    [][/\ pc = "parseConfig" =>
              IF Len(tokens) = 1
              THEN FailsWith(M_Line \o <<49>> \o M_Column \o <<49>> \o M_Colon
                                 \o M_EmptyConfiguration)
              ELSE pc' = "parseConfig_loop"
       /\ (pc = "parseConfig_loop" /\ pos = 0 /\ tokens[1].type # "KEYWORD_SERVER")
              => FailsWith(M_ExpectedServerBlock)
       /\ (pc = "parseServer_loop" /\ ~isAtEnd(tokens, pos)
               /\ current(tokens, pos).type = "RBRACE")
              => IF tokens[pos + 2].type \in {"KEYWORD_SERVER", "END_OF_FILE"}
                 THEN pc' = "parseConfig_loop"
                 ELSE FailsWith(M_UnexpectedAfterServer)
       /\ pc' = "returned" =>
              /\ OnlyServerBlocks(tokens)
              /\ Len(result'.config) = Cardinality(ServerBlocks(tokens))
              /\ Len(result'.config) >= 1]_vars

\* a comment over two lines and nothing else was refused as an empty configuration
C18_Witness ==
    /\ pc = "thrown"
    /\ input = U_block_comment
    /\ Len(tokens) = 1
    /\ tokens[1].line = 3
    /\ Contains(result.err.what, M_EmptyConfiguration)

\* the tokens that start a directive or a block: those after '{', ';' and '}'
DirectiveStarts(toks) ==
    {i \in 2..Len(toks) :
        /\ toks[i - 1].type \in {"LBRACE", "SEMICOLON", "RBRACE"}
        /\ toks[i].type \notin {"RBRACE", "END_OF_FILE"}}

\* the names of the two registries
ServerLevelNames == {K_listen, K_host, K_server_name, K_client_max_body_size, K_error_page}

LocationLevelNames ==
    {K_root, K_index, K_autoindex, K_methods, K_upload_store, K_cgi_extension, K_return}

\* every directive of the token stream stands in the kind of block it belongs to
PlacedWhereTheyBelong(toks) ==
    \A i \in DirectiveStarts(toks) :
        IF DepthBefore(toks, i) = 0 THEN toks[i].type = "KEYWORD_SERVER"
        ELSE IF DepthBefore(toks, i) = 1
        THEN toks[i].type = "KEYWORD_LOCATION" \/ toLower(toks[i].value) \in ServerLevelNames
        ELSE DepthBefore(toks, i) = 2 /\ toLower(toks[i].value) \in LocationLevelNames

\* a step on a directive whose name is not in the registry of the block fails, and with
\* "Unknown directive: '<name>'" when it is a first occurrence ended by its semicolon
C19_Step(registry) ==
    LET name == toLower(current(tokens, pos).value)
        n    == Len(collectArgs(tokens, pos + 1, kArgTokenTypes).values)
    IN  name \notin registry
            => /\ pc' = "thrown"
               /\ (name \notin DirectivesBefore(tokens, pos, 0)
                       /\ tokens[pos + 2 + n].type = "SEMICOLON")
                      => FailsWith(M_UnknownDirective \o current(tokens, pos).value \o M_Quote)

\* C19: directives are accepted only in the kind of block they belong to: a
\* location-level directive directly inside a server block, a server-level directive
\* inside a location block and a name in neither registry make parseConfig fail ("Unknown
\* directive: '<name>'" when the directive is otherwise well formed); a server or location
\* block nested inside a location block fails too.
C19_DirectivePlacement ==
    [][/\ (pc = "parseServer_loop" /\ inBlock(tokens, pos)
               /\ current(tokens, pos).type # "KEYWORD_LOCATION") => C19_Step(ServerLevelNames)
       /\ (pc = "parseLocation_loop" /\ inBlock(tokens, pos)) => C19_Step(LocationLevelNames)
       /\ pc' = "returned" => input \notin NestedBlockTexts /\ PlacedWhereTheyBelong(tokens)]_vars

\* `listen 80;` inside a location block was refused as an unknown directive
C19_Witness ==
    /\ pc = "thrown"
    /\ input = ServerText(<<LocationText(W_path_a, <<DirectiveText(K_listen, <<W_80>>)>>)>>)
    /\ Contains(result.err.what, M_UnknownDirective \o K_listen \o M_Quote)

\* the braces of the token stream match: no '}' without a block to close, none left open
Balanced(toks) ==
    /\ \A i \in 1..Len(toks) : toks[i].type = "RBRACE" => DepthBefore(toks, i) >= 1
    /\ DepthBefore(toks, Len(toks)) = 0

\* the first token from i on that is a brace, a semicolon or END_OF_FILE
RECURSIVE NextDelimiter(_, _)
NextDelimiter(toks, i) ==
    IF i >= Len(toks) \/ toks[i].type \in {"LBRACE", "RBRACE", "SEMICOLON"} THEN toks[i].type
    ELSE NextDelimiter(toks, i + 1)

\* every directive of the token stream is followed by its semicolon
Terminated(toks) ==
    \A i \in DirectiveStarts(toks) :
        (DepthBefore(toks, i) >= 1 /\ toks[i].type # "KEYWORD_LOCATION")
            => NextDelimiter(toks, i) = "SEMICOLON"

\* a step on a directive: without its semicolon it fails and leaves the entity as it was;
\* an accepted one has moved the cursor just past its semicolon
C20_Step(entity, entityAfter) ==
    LET n == Len(collectArgs(tokens, pos + 1, kArgTokenTypes).values)
    IN  IF tokens[pos + 2 + n].type # "SEMICOLON"
        THEN pc' = "thrown" /\ entityAfter = entity
        ELSE pc' # "thrown" => pos' = pos + n + 2

\* C20: parseConfig never succeeds on a token stream in which some directive is not
\* terminated by a SEMICOLON token or in which the braces are not balanced: a handler is
\* applied to a directive only after its ';' has been consumed, a block left open at
\* END_OF_FILE fails, and a surplus '}' fails.
C20_TerminatedAndBalanced ==
    [][/\ (pc = "parseServer_loop" /\ inBlock(tokens, pos)
               /\ current(tokens, pos).type # "KEYWORD_LOCATION") => C20_Step(server, server')
       /\ (pc = "parseLocation_loop" /\ inBlock(tokens, pos)) => C20_Step(location, location')
       /\ (pc \in {"parseServer_loop", "parseLocation_loop"} /\ isAtEnd(tokens, pos))
              => pc' = "thrown"
       /\ pc' = "returned" => Balanced(tokens) /\ Terminated(tokens)]_vars

\* `listen 81` without its semicolon was refused and the server is as it was constructed
C20_Witness ==
    /\ pc = "thrown"
    /\ input = WithoutWord(5)
    /\ server = Server
    /\ Contains(result.err.what, X_SemicolonAfterServerDirective)

---------------------------------------------------------------------------
(* Frame, argument and cursor properties of the parser, checked under Spec. *)

\* W_127_0_0_1: "127.0.0.1"
W_127_0_0_1 == <<49, 50, 55, 46, 48, 46, 48, 46, 49>>

\* the fields of a Server or a Location that belong to a directive
FieldsOf(name) ==
    CASE name = K_listen -> {"port"}
      [] name = K_host -> {"host"}
      [] name = K_server_name -> {"server_names"}
      [] name = K_client_max_body_size -> {"client_max_body_size"}
      [] name = K_error_page -> {"error_pages"}
      [] name = K_root -> {"root"}
      [] name = K_index -> {"index_files"}
      [] name = K_autoindex -> {"autoindex"}
      [] name = K_methods -> {"methods"}
      [] name = K_upload_store -> {"upload_store"}
      [] name = K_cgi_extension -> {"cgi_extensions"}
      [] name = K_return -> {"redirect", "return_code"}
      [] OTHER -> {}

\* the entity has the same fields after as before, with the same values but in `fields`
OnlyChanged(before, after, fields) ==
    /\ DOMAIN after = DOMAIN before
    /\ \A f \in (DOMAIN before) \ fields : after[f] = before[f]

\* every field of a directive of the registry that is not among `names` has the value
\* it has in the newly constructed entity
DefaultsKept(entity, fresh, names, registry) ==
    \A d \in registry \ names : \A f \in FieldsOf(d) : entity[f] = fresh[f]

\* C23: each directive handler changes only the field(s) of its own directive on the
\* Server or Location it is handed and nothing else; a block starts from the defaults
\* (port 80, host "0.0.0.0", client_max_body_size 1048576, autoindex false, return_code
\* 0, empty collections), so a field whose directive is absent from the block has its
\* default when the block is closed; `server { listen 8080; host 127.0.0.1; }` yields
\* port 8080, host "127.0.0.1" and client_max_body_size 1048576.
C23_FrameAndDefaults ==
    [][/\ (pc = "parseServer_loop" /\ inBlock(tokens, pos)
               /\ current(tokens, pos).type # "KEYWORD_LOCATION")
              => /\ OnlyChanged(server, server', FieldsOf(toLower(current(tokens, pos).value)))
                 /\ location' = location
                 /\ config' = config
       /\ (pc = "parseLocation_loop" /\ inBlock(tokens, pos))
              => /\ OnlyChanged(location, location',
                                FieldsOf(toLower(current(tokens, pos).value)))
                 /\ server' = server
                 /\ config' = config
       /\ (pc = "parseConfig_loop" /\ pc' = "parseServer_loop")
              => /\ server' = Server
                 /\ server'.port = 80
                 /\ server'.host = S_DefaultHost
                 /\ server'.client_max_body_size = BigFromInt(1048576)
                 /\ server'.server_names = <<>>
                 /\ DOMAIN server'.error_pages = {}
                 /\ server'.locations = <<>>
       /\ (pc = "parseServer_loop" /\ pc' = "parseLocation_loop")
              => /\ OnlyChanged(Location, location', {"path"})
                 /\ ~location'.autoindex
                 /\ location'.return_code = 0
                 /\ location'.methods = {}
                 /\ location'.index_files = <<>>
                 /\ location'.cgi_extensions = <<>>
       /\ (pc = "parseLocation_loop" /\ pc' = "parseServer_loop")
              => /\ DefaultsKept(location, Location, DirectivesBefore(tokens, pos, 0),
                                 LocationLevelNames)
                 /\ OnlyChanged(server, server', {"locations"})
       /\ (pc = "parseServer_loop" /\ pc' = "parseConfig_loop")
              => DefaultsKept(server, Server, DirectivesBefore(tokens, pos, 0),
                              ServerLevelNames)
       /\ pc' = "returned" =>
              /\ result'.config = config
              /\ input = I_S1 =>
                     /\ Len(result'.config) = 1
                     /\ result'.config[1] =
                            [Server EXCEPT !.port = 8080, !.host = W_127_0_0_1]
                     /\ result'.config[1].client_max_body_size = BigFromInt(1048576)]_vars

\* `server { listen 8080; host 127.0.0.1; }` was returned as one server with the port
\* and the host of the block and the default body size
C23_Witness ==
    /\ pc = "returned"
    /\ input = I_S1
    /\ Len(result.config) = 1
    /\ result.config[1].port = 8080
    /\ result.config[1].host = W_127_0_0_1
    /\ result.config[1].client_max_body_size = BigFromInt(1048576)

---------------------------------------------------------------------------
(* Direct calls of the index and cgi_extension handlers: the same pieces   *)
(* given as one comma-joined argument and as separate arguments.           *)

\* the most pieces joined by commas in one argument
MaxPieces == 3

\* W_b_c: "b.c"
W_b_c == <<98, 46, 99>>
\* W_y: "y"
W_y == <<121>>

\* the pieces joined by commas
RECURSIVE JoinWithCommas(_)
JoinWithCommas(pieces) ==
    IF Len(pieces) = 1 THEN pieces[1]
    ELSE Head(pieces) \o W_comma \o JoinWithCommas(Tail(pieces))

NonEmpty(piece) == piece # <<>>

\* a call: the handler, the arguments before and after, and the pieces (some empty)
SplitCalls ==
    [fn : {"index", "cgi_extension"},
     before : {<<>>, <<W_x>>},
     pieces : SeqsUpTo({<<>>, W_a, W_b_c}, MaxPieces) \ {<<>>},
     after : {<<>>, <<W_y>>}]

\* the argument list with the pieces as one comma-joined argument
JoinedArgs(c) == c.before \o <<JoinWithCommas(c.pieces)>> \o c.after

\* the argument list with each non-empty piece as an argument of its own
SeparateArgs(c) == c.before \o SelectSeq(c.pieces, NonEmpty) \o c.after

InitSplit ==
    /\ call \in SplitCalls
    /\ ret = NoCall
    /\ pc = "call"
    /\ input = <<>>
    /\ tokens = <<>>
    /\ pos = 0
    /\ config = <<>>
    /\ server = Server
    /\ location = Location
    /\ seen = [parseServer |-> {}, parseLocation |-> {}]
    /\ result = NoResult

\* locationHandlers().at("index") on a fresh Location, with both argument lists
CallIndexHandler ==
    /\ pc = "call"
    /\ call.fn = "index"
    /\ ret' = [joined   |-> index_handler(Location, JoinedArgs(call), 1, 1),
               separate |-> index_handler(Location, SeparateArgs(call), 1, 1)]
    /\ pc' = "done"
    /\ UNCHANGED <<input, tokens, pos, config, server, location, seen, result, call>>

\* locationHandlers().at("cgi_extension") on a fresh Location, with both argument lists
CallCgiExtensionHandler ==
    /\ pc = "call"
    /\ call.fn = "cgi_extension"
    /\ ret' = [joined   |-> cgi_extension_handler(Location, JoinedArgs(call), 1, 1),
               separate |-> cgi_extension_handler(Location, SeparateArgs(call), 1, 1)]
    /\ pc' = "done"
    /\ UNCHANGED <<input, tokens, pos, config, server, location, seen, result, call>>

NextSplit == CallIndexHandler \/ CallCgiExtensionHandler

SpecSplit == InitSplit /\ [][NextSplit]_vars

\* the list the called handler appends to
Entries(loc) == IF call.fn = "index" THEN loc.index_files ELSE loc.cgi_extensions

\* C8: for the index and cgi_extension handlers, an argument list with a comma-joined
\* argument appends exactly the entries, in the same order, that the list with the pieces
\* as separate arguments appends; empty pieces (leading, trailing or doubled commas)
\* append nothing.
C8_CommaSplitEqualsSeparateArgs ==
    pc = "done" =>
        /\ ~ret.joined.err.thrown
        /\ Entries(ret.joined.obj) = SeparateArgs(call)
        /\ SeparateArgs(call) # <<>> =>
               /\ ~ret.separate.err.thrown
               /\ ret.separate.obj = ret.joined.obj

\* "a,,b.c" between two other arguments appended a and b.c in their place
C8_Witness ==
    /\ pc = "done"
    /\ call.pieces = <<W_a, <<>>, W_b_c>>
    /\ call.before = <<W_x>>
    /\ Entries(ret.joined.obj) = <<W_x, W_a, W_b_c>>

---------------------------------------------------------------------------
(* Direct calls of Tokenizer(text).tokenize() on a text and on the same    *)
(* text behind a byte order mark.                                          *)

\* the longest text tokenized
MaxTextLen == 4

\* the bytes of the mark, a letter, a digit, ';', '{', '$', space, newline and '"'
TextBytes == {239, 187, 191, 97, 49, 59, 123, 36, 32, 10, 34}

InitBOM ==
    /\ call \in [fn : {"tokenize"}, text : SeqsUpTo(TextBytes, MaxTextLen)]
    /\ ret = NoCall
    /\ pc = "call"
    /\ input = <<>>
    /\ tokens = <<>>
    /\ pos = 0
    /\ config = <<>>
    /\ server = Server
    /\ location = Location
    /\ seen = [parseServer |-> {}, parseLocation |-> {}]
    /\ result = NoResult

\* Tokenizer(T).tokenize() and Tokenizer(EF BB BF T).tokenize()
TokenizeWithAndWithoutBOM ==
    /\ pc = "call"
    /\ call.fn = "tokenize"
    /\ ret' = [plain |-> tokenize(call.text), bom |-> tokenize(BOM \o call.text)]
    /\ pc' = "done"
    /\ UNCHANGED <<input, tokens, pos, config, server, location, seen, result, call>>

NextBOM == TokenizeWithAndWithoutBOM

SpecBOM == InitBOM /\ [][NextBOM]_vars

\* both runs fail, or both succeed with streams of equal length whose tokens agree
\* position by position in kind, lexeme, line and column
SameTokenStream(a, b) ==
    /\ a.err.thrown = b.err.thrown
    /\ ~a.err.thrown =>
           /\ Len(a.tokens) = Len(b.tokens)
           /\ \A i \in 1..Len(a.tokens) :
                  /\ a.tokens[i].type = b.tokens[i].type
                  /\ a.tokens[i].value = b.tokens[i].value
                  /\ a.tokens[i].line = b.tokens[i].line
                  /\ a.tokens[i].column = b.tokens[i].column

\* C9 as stated: for every text T, tokenizing T and tokenizing EF BB BF followed by T
\* give the same outcome.
C9_EveryText == pc = "done" => SameTokenStream(ret.plain, ret.bom)

\* C9, amended: for every text T that does not itself begin with EF BB BF, tokenizing T
\* and tokenizing EF BB BF followed by T give the same outcome (both fail, or both succeed
\* with the same kinds, lexemes, lines and columns).
C9_TextWithoutLeadingBOM ==
    (pc = "done" /\ ~StartsWith(call.text, BOM)) => SameTokenStream(ret.plain, ret.bom)

\* a text of two lines was tokenized to three tokens with and without the mark
C9_Witness ==
    /\ pc = "done"
    /\ ~StartsWith(call.text, BOM)
    /\ ~ret.bom.err.thrown
    /\ Len(ret.bom.tokens) = 3
    /\ ret.bom.tokens[2].line = 2

---------------------------------------------------------------------------
(* Keywords and directive names written in other letter cases: direct      *)
(* calls of the tokenizer on a keyword and of the parser on a              *)
(* configuration, each beside the lowercase spelling.                      *)

\* the most letters of a keyword whose case is changed, from all lowercase or from all
\* uppercase
MaxFlips == 2

\* the most keywords of the configuration that are written in another style
MaxStyled == 2

\* the keys of the keyword map
KeywordMapKeys ==
    {K_server, K_location, K_listen, K_host, K_root, K_index, K_autoindex, K_methods,
     K_upload_store, K_return, K_error_page, K_client_max_body_size, K_cgi_extension}

\* the positions of the word that hold a letter
LetterPositions(word) == {i \in 1..Len(word) : isalpha(word[i])}

\* the sets of at most n elements of S
SubsetsUpTo(S, n) == {x \in SUBSET S : Cardinality(x) <= n}

\* the word with the letters at the positions flips in the other case than the rest:
\* uppercase among lowercase, or lowercase among uppercase when inverted
WithCase(word, flips, inverted) ==
    [i \in 1..Len(word) |-> IF (i \in flips) # inverted THEN toupper(word[i]) ELSE word[i]]

\* the word in a style
Styled(word, style) ==
    [i \in 1..Len(word) |->
        IF \/ style = "upper"
           \/ style = "capital" /\ i = 1
           \/ style = "alternate" /\ i % 2 = 0
        THEN toupper(word[i]) ELSE word[i]]

\* a configuration that uses every directive: its keywords and directive names, and the
\* text between them
CaseTemplate ==
    <<
      [kw |-> TRUE,  w |-> K_server],
      \* " { "
      [kw |-> FALSE, w |-> <<32, 123, 32>>],
      [kw |-> TRUE,  w |-> K_listen],
      \* " 8080; "
      [kw |-> FALSE, w |-> <<32, 56, 48, 56, 48, 59, 32>>],
      [kw |-> TRUE,  w |-> K_host],
      \* " LocalHost; "
      [kw |-> FALSE, w |-> <<32, 76, 111, 99, 97, 108, 72, 111, 115, 116, 59, 32>>],
      [kw |-> TRUE,  w |-> K_server_name],
      \* " Example.COM; "
      [kw |-> FALSE, w |-> <<32, 69, 120, 97, 109, 112, 108, 101, 46, 67, 79, 77, 59, 32>>],
      [kw |-> TRUE,  w |-> K_client_max_body_size],
      \* " 1M; "
      [kw |-> FALSE, w |-> <<32, 49, 77, 59, 32>>],
      [kw |-> TRUE,  w |-> K_error_page],
      \* " 404 /E.html; "
      [kw |-> FALSE, w |-> <<32, 52, 48, 52, 32, 47, 69, 46, 104, 116, 109, 108, 59, 32>>],
      [kw |-> TRUE,  w |-> K_location],
      \* " /Img { "
      [kw |-> FALSE, w |-> <<32, 47, 73, 109, 103, 32, 123, 32>>],
      [kw |-> TRUE,  w |-> K_root],
      \* " /Var; "
      [kw |-> FALSE, w |-> <<32, 47, 86, 97, 114, 59, 32>>],
      [kw |-> TRUE,  w |-> K_index],
      \* " A.html; "
      [kw |-> FALSE, w |-> <<32, 65, 46, 104, 116, 109, 108, 59, 32>>],
      [kw |-> TRUE,  w |-> K_autoindex],
      \* " on; "
      [kw |-> FALSE, w |-> <<32, 111, 110, 59, 32>>],
      [kw |-> TRUE,  w |-> K_methods],
      \* " GET; "
      [kw |-> FALSE, w |-> <<32, 71, 69, 84, 59, 32>>],
      [kw |-> TRUE,  w |-> K_upload_store],
      \* " /Up; "
      [kw |-> FALSE, w |-> <<32, 47, 85, 112, 59, 32>>],
      [kw |-> TRUE,  w |-> K_cgi_extension],
      \* " .PHP; "
      [kw |-> FALSE, w |-> <<32, 46, 80, 72, 80, 59, 32>>],
      [kw |-> TRUE,  w |-> K_return],
      \* " 301 /New; } }"
      [kw |-> FALSE, w |-> <<32, 51, 48, 49, 32, 47, 78, 101, 119, 59, 32, 125, 32, 125>>]
    >>

\* the places of the template that hold a keyword or a directive name
KeywordSlots == {i \in 1..Len(CaseTemplate) : CaseTemplate[i].kw}

\* the configuration with the keywords at the places styled written in the style
TemplateText(styled, style) ==
    Concat([i \in 1..Len(CaseTemplate) |->
               IF i \in styled THEN Styled(CaseTemplate[i].w, style) ELSE CaseTemplate[i].w])

KeywordCalls ==
    UNION {[fn : {"keyword"}, keyword : {K}, flips : SubsetsUpTo(LetterPositions(K), MaxFlips),
            inverted : BOOLEAN] : K \in KeywordMapKeys}

ConfigCalls ==
    [fn : {"config"}, styled : SubsetsUpTo(KeywordSlots, MaxStyled) \cup {KeywordSlots},
     style : {"upper", "capital", "alternate"}]

InitCase ==
    /\ call \in KeywordCalls \cup ConfigCalls
    /\ ret = NoCall
    /\ pc = "call"
    /\ input = <<>>
    /\ tokens = <<>>
    /\ pos = 0
    /\ config = <<>>
    /\ server = Server
    /\ location = Location
    /\ seen = [parseServer |-> {}, parseLocation |-> {}]
    /\ result = NoResult

\* Tokenizer(K).tokenize() on the keyword as written and in lowercase
TokenizeKeyword ==
    /\ pc = "call"
    /\ call.fn = "keyword"
    /\ input' = WithCase(call.keyword, call.flips, call.inverted)
    /\ ret' = [written |-> tokenize(input'), lower |-> tokenize(call.keyword)]
    /\ pc' = "done"
    /\ UNCHANGED <<tokens, pos, config, server, location, seen, result, call>>

\* ConfigParser(text).parseConfig() on the configuration as written and in lowercase
ParseInBothCases ==
    /\ pc = "call"
    /\ call.fn = "config"
    /\ input' = TemplateText(call.styled, call.style)
    /\ ret' = [written |-> ConfigParser_parseConfig(input'),
               lower   |-> ConfigParser_parseConfig(TemplateText({}, call.style))]
    /\ pc' = "done"
    /\ UNCHANGED <<tokens, pos, config, server, location, seen, result, call>>

NextCase == TokenizeKeyword \/ ParseInBothCases

SpecCase == InitCase /\ [][NextCase]_vars

\* the kinds of token that are keywords
KeywordKinds ==
    {"KEYWORD_SERVER", "KEYWORD_LOCATION", "KEYWORD_LISTEN", "KEYWORD_HOST", "KEYWORD_ROOT",
     "KEYWORD_INDEX", "KEYWORD_AUTOINDEX", "KEYWORD_METHODS", "KEYWORD_UPLOAD_STORE",
     "KEYWORD_RETURN", "KEYWORD_ERROR_PAGE", "KEYWORD_CLIENT_MAX_BODY_SIZE",
     "KEYWORD_CGI_EXTENSION"}

\* the keyword in some letter case gave one token of the kind of the lowercase keyword,
\* a keyword kind, whose lexeme is the text as it was written
SameKeywordKind ==
    /\ ~ret.written.err.thrown
    /\ ~ret.lower.err.thrown
    /\ Len(ret.written.tokens) = 2
    /\ ret.written.tokens[1].type = ret.lower.tokens[1].type
    /\ ret.written.tokens[1].type \in KeywordKinds
    /\ ret.written.tokens[1].value = input
    /\ ret.written.tokens[2].type = "END_OF_FILE"

\* the configuration in some letter case parsed, and to the Config of the lowercase one
SameConfig ==
    /\ ~ret.written.err.thrown
    /\ ~ret.lower.err.thrown
    /\ ret.written.config = ret.lower.config

\* C10: every keyword of the keyword map, in every letter case, tokenizes without error to
\* the same keyword kind with the lexeme as written; and a configuration that differs from
\* another only in the letter case of its keywords and directive names parses to an
\* identical Config.
C10_KeywordCaseInsensitive ==
    pc = "done" => IF call.fn = "keyword" THEN SameKeywordKind ELSE SameConfig

\* "Server_Name" and "LOCATION" among lowercase keywords parsed to the server on port
\* 8080 with its one location
C10_Witness ==
    /\ pc = "done"
    /\ call.fn = "config"
    /\ call.style = "upper"
    /\ Cardinality(call.styled) = 2
    /\ input # TemplateText({}, "upper")
    /\ ~ret.written.err.thrown
    /\ Len(ret.written.config) = 1
    /\ ret.written.config[1].port = 8080
    /\ Len(ret.written.config[1].locations) = 1

---------------------------------------------------------------------------
(* Texts for the tokenizer: words separated by one space, with whitespace  *)
(* or a comment put in after one of the words.                             *)

\* the most words of a text
MaxWords == 2

\* a word as it is written, and the token it is read as
Words ==
    {[raw |-> <<97>>, type |-> "IDENTIFIER", value |-> <<97>>],
     [raw |-> <<49>>, type |-> "NUMBER", value |-> <<49>>],
     \* 10, 10k, 1.1.1 and server
     [raw |-> <<49, 48>>, type |-> "NUMBER", value |-> <<49, 48>>],
     [raw |-> <<49, 48, 107>>, type |-> "NUMBER", value |-> <<49, 48, 107>>],
     [raw |-> <<49, 46, 49, 46, 49>>, type |-> "IDENTIFIER", value |-> <<49, 46, 49, 46, 49>>],
     [raw |-> K_server, type |-> "KEYWORD_SERVER", value |-> K_server],
     [raw |-> <<59>>, type |-> "SEMICOLON", value |-> <<59>>],
     [raw |-> <<123>>, type |-> "LBRACE", value |-> <<123>>],
     [raw |-> <<34, 115, 34>>, type |-> "STRING", value |-> <<115>>]}

\* F_hash: "#c\n"
F_hash == <<35, 99, 10>>
\* F_slashes: "//c\n"
F_slashes == <<47, 47, 99, 10>>
\* F_block: "/*c*/"
F_block == <<47, 42, 99, 42, 47>>
\* F_block_lines: "/*\nc\n*/"
F_block_lines == <<47, 42, 10, 99, 10, 42, 47>>
\* F_block_empty: "/**/"
F_block_empty == <<47, 42, 42, 47>>
\* F_open: "/*c"
F_open == <<47, 42, 99>>
\* F_open_star: "/*c*"
F_open_star == <<47, 42, 99, 42>>

\* space, tab, CR, newline, CR and newline
Blanks == {<<32>>, <<9>>, <<13>>, <<10>>, <<13, 10>>}

\* comments that are closed, and block comments that are not
ClosedComments == {F_hash, F_slashes, F_block, F_block_lines, F_block_empty}
OpenComments == {F_open, F_open_star}

\* the words, the word after which something is put in, whether a space comes first,
\* and what is put in
Insertions ==
    {c \in [words : SeqsUpTo(Words, MaxWords) \ {<<>>},
            after : 1..MaxWords,
            spaced : BOOLEAN,
            filler : Blanks \cup ClosedComments \cup OpenComments] :
         c.after <= Len(c.words)}

\* the text of an insertion: the filler follows word `after`, a space every other word
InsertionText(c) ==
    Concat([i \in 1..Len(c.words) |->
               c.words[i].raw
                   \o (IF i # c.after THEN <<32>>
                       ELSE (IF c.spaced THEN <<32>> ELSE <<>>) \o c.filler)])

InsertionTexts == {InsertionText(c) : c \in Insertions}

---------------------------------------------------------------------------
(* Properties of the token vector, checked under SpecBOM on the text as it *)
(* is (ret.plain) and behind a byte order mark (ret.bom).                  *)

\* the kinds of the tokens, in order
Kinds(toks) == [i \in 1..Len(toks) |-> toks[i].type]

\* a returned vector is not empty, ends with END_OF_FILE and holds no other END_OF_FILE
EndsWithOneEof(r) ==
    ~r.err.thrown =>
        /\ Len(r.tokens) >= 1
        /\ r.tokens[Len(r.tokens)].type = "END_OF_FILE"
        /\ \A i \in 1..(Len(r.tokens) - 1) : r.tokens[i].type # "END_OF_FILE"

\* C11: every token vector returned by tokenize() is non-empty, its last token is
\* END_OF_FILE and no other token is; the empty input gives exactly one END_OF_FILE and
\* ";" gives SEMICOLON followed by END_OF_FILE.
C11_EndOfFileLast ==
    pc = "done" =>
        /\ EndsWithOneEof(ret.plain)
        /\ EndsWithOneEof(ret.bom)
        /\ call.text = <<>> =>
               ~ret.plain.err.thrown /\ Kinds(ret.plain.tokens) = <<"END_OF_FILE">>
        /\ call.text = <<59>> =>
               ~ret.plain.err.thrown /\ Kinds(ret.plain.tokens) = <<"SEMICOLON", "END_OF_FILE">>

\* ";" was tokenized to two tokens, and "a;{1" to five
C11_Witness ==
    /\ pc = "done"
    /\ call.text \in {<<59>>, <<97, 59, 123, 49>>}
    /\ ~ret.plain.err.thrown
    /\ Len(ret.plain.tokens) = Len(call.text) + 1
    /\ ret.plain.tokens[Len(call.text) + 1].type = "END_OF_FILE"

\* the first offset at or after `from` that holds no whitespace
RECURSIVE SkipSpace(_, _)
SkipSpace(text, from) ==
    IF from < Len(text) /\ isspace(text[from + 1]) THEN SkipSpace(text, from + 1) ELSE from

\* the bytes a token takes in the source: a string literal has its two quotes
RawLen(tok) == IF tok.type = "STRING" THEN Len(tok.value) + 2 ELSE Len(tok.value)

\* the offsets at which the lexemes of the tokens start in a text without comments and
\* escapes: each lexeme starts after the whitespace that follows the one before
RECURSIVE LexemeStarts(_, _, _)
LexemeStarts(text, toks, from) ==
    IF toks = <<>> THEN <<>>
    ELSE Let(SkipSpace(text, from), LAMBDA s :
             <<s>> \o LexemeStarts(text, Tail(toks), s + RawLen(Head(toks))))

\* the 1-based line and column of the byte at an offset
LineAt(text, off) == 1 + Cardinality({i \in 1..off : text[i] = 10})

ColumnAt(text, off) ==
    LET newlines == {i \in 1..off : text[i] = 10}
    IN  off + 1 - (IF newlines = {} THEN 0 ELSE CHOOSE i \in newlines : \A j \in newlines : j <= i)

IsAscii(text) == \A i \in 1..Len(text) : text[i] < 128

\* every token but END_OF_FILE has the line and the column of the first byte of its lexeme
StartsWhereRecorded(text, toks) ==
    Let(LexemeStarts(text, toks, 0), LAMBDA starts :
        \A i \in 1..(Len(toks) - 1) :
            /\ toks[i].line = LineAt(text, starts[i])
            /\ toks[i].column = ColumnAt(text, starts[i]))

\* C12: every token emitted by the tokenizer (identifier, keyword, number, string, brace,
\* semicolon) records the 1-based line on which its lexeme starts and the 1-based column
\* of the first character of its lexeme in the source.
C12_LineAndColumn ==
    (pc = "done" /\ IsAscii(call.text) /\ ~ret.plain.err.thrown)
        => StartsWhereRecorded(call.text, ret.plain.tokens)

\* C14: an unquoted token that contains '$' makes tokenize() fail with the message that
\* tells the user to wrap any text containing '$' in quotes.
C14_DollarInUnquotedToken ==
    (/\ pc = "done"
     /\ \E i \in 1..Len(call.text) : call.text[i] = 36
     /\ \A i \in 1..Len(call.text) : call.text[i] \in {36, 97, 49})
        => /\ ret.plain.err.thrown
           /\ Contains(ret.plain.err.what, M_DollarInToken)

---------------------------------------------------------------------------
(* Direct calls of Tokenizer(text).tokenize() on described texts: string   *)
(* literals, short and at the 64 KiB limit, and texts that start with a    *)
(* digit.                                                                  *)

\* n copies of the byte b
Rep(b, n) == [i \in 1..n |-> b]

\* the longest body of a short string literal
MaxBody == 3

\* 'a', backslash, 'n', 't', 'r', 'q', the two quotes and newline
BodyBytes == {97, 92, 110, 116, 114, 113, 34, 39, 10}

\* a quote, a body and a closing quote of either kind or none
StringLiteralTexts ==
    {<<q>> \o body \o closing :
         q \in {34, 39}, body \in SeqsUpTo(BodyBytes, MaxBody), closing \in {<<>>, <<34>>, <<39>>}}

\* a literal of n letters, followed by the escape \n when escaped
LiteralText(q, n, escaped) ==
    <<q>> \o Rep(97, n) \o (IF escaped THEN <<92, 110>> ELSE <<>>) \o <<q>>

\* literals with their decoded sizes: short ones, and ones at the limit of 64 KiB
\* (one byte under, at it and one byte over; the escape is one more decoded byte)
LiteralCases ==
    {[text |-> LiteralText(34, n, escaped), decoded |-> n + (IF escaped THEN 1 ELSE 0)] :
         n \in (0..MaxBody) \cup {65535, 65536, 65537}, escaped \in BOOLEAN}
        \cup {[text |-> LiteralText(39, n, FALSE), decoded |-> n] :
                  n \in (0..MaxBody) \cup {65536, 65537}}

\* the most bytes after the first digit of a text that starts with a digit
MaxTail == 4

\* '1', '.', 'a', 'b', ';' and space
TailBytes == {49, 46, 97, 98, 59, 32}

\* texts that start with a digit
DigitTexts == {<<49>> \o tail : tail \in SeqsUpTo(TailBytes, MaxTail)}

TokenizerTexts == StringLiteralTexts \cup {c.text : c \in LiteralCases} \cup DigitTexts

InitText ==
    /\ call \in [fn : {"tokenize"}, text : TokenizerTexts]
    /\ ret = NoCall
    /\ pc = "call"
    /\ input = <<>>
    /\ tokens = <<>>
    /\ pos = 0
    /\ config = <<>>
    /\ server = Server
    /\ location = Location
    /\ seen = [parseServer |-> {}, parseLocation |-> {}]
    /\ result = NoResult

\* Tokenizer(text).tokenize()
TokenizeText ==
    /\ pc = "call"
    /\ call.fn = "tokenize"
    /\ ret' = tokenize(call.text)
    /\ pc' = "done"
    /\ UNCHANGED <<input, tokens, pos, config, server, location, seen, result, call>>

NextText == TokenizeText

SpecText == InitText /\ [][NextText]_vars

\* C21: a quoted string literal whose decoded content is exactly 65536 bytes (or less) is
\* tokenized to one STRING token of that size, and one whose decoded content is 65537
\* bytes (or more) fails with "String literal exceeds 64 KiB limit"; an escape sequence
\* counts as the one byte it decodes to.
C21_StringLiteralLimit ==
    \A c \in LiteralCases :
        (pc = "done" /\ call.text = c.text) =>
            IF c.decoded <= 65536
            THEN /\ ~ret.err.thrown
                 /\ Kinds(ret.tokens) = <<"STRING", "END_OF_FILE">>
                 /\ Len(ret.tokens[1].value) = c.decoded
            ELSE /\ ret.err.thrown
                 /\ Contains(ret.err.what, M_StringTooLong)

\* a literal of 65535 letters and one escape was tokenized to a STRING of 65536 bytes
C21_Witness ==
    /\ pc = "done"
    /\ Len(call.text) = 65535 + 2 + 2
    /\ ~ret.err.thrown
    /\ Len(ret.tokens[1].value) = 65536
    /\ ret.tokens[1].value[65536] = 10

\* the length of the longest prefix of a text whose bytes are all in a set
PrefixLen(text, bytes) ==
    CHOOSE n \in 0..Len(text) :
        /\ \A i \in 1..n : text[i] \in bytes
        /\ n = Len(text) \/ text[n + 1] \notin bytes

DigitBytes == 48..57
LetterBytes == (65..90) \cup (97..122)
IdentifierBytes == DigitBytes \cup LetterBytes \cup {95, 47, 46, 45, 58}

\* the leading run of digits and dots of the text holds two dots or more, or the second
\* byte of the text is an identifier character that is no digit
ReadAsIdentifier(text) ==
    \/ Cardinality({i \in 1..PrefixLen(text, DigitBytes \cup {46}) : text[i] = 46}) >= 2
    \/ Len(text) >= 2 /\ text[2] \in IdentifierBytes \ DigitBytes

\* the text starts with a run of digits followed by two letters
TwoLetterSuffix(text) ==
    LET d == PrefixLen(text, DigitBytes)
    IN  Len(text) >= d + 2 /\ text[d + 1] \in LetterBytes /\ text[d + 2] \in LetterBytes

\* the run of digits the text starts with, and the letter after it if there is one
DigitsAndLetter(text) ==
    LET d == PrefixLen(text, DigitBytes)
    IN  SubSeq(text, 1, IF Len(text) > d /\ text[d + 1] \in LetterBytes THEN d + 1 ELSE d)

\* C24: a token that starts with an ASCII digit is one IDENTIFIER (the whole run of
\* identifier characters) when its leading run of digits and dots holds at least two dots
\* (`1.1.1`) or when its second character is a non-digit identifier character; otherwise
\* it is a NUMBER whose lexeme is the non-empty digit run followed by at most one ASCII
\* letter, and a digit run followed by two consecutive letters (`11ab`) fails with
\* "Invalid number suffix".
C24_DigitLedToken ==
    (pc = "done" /\ call.text \in DigitTexts) =>
        IF ReadAsIdentifier(call.text)
        THEN ~ret.err.thrown =>
                 /\ ret.tokens[1].type = "IDENTIFIER"
                 /\ ret.tokens[1].value =
                        SubSeq(call.text, 1, PrefixLen(call.text, IdentifierBytes))
        ELSE IF TwoLetterSuffix(call.text)
        THEN ret.err.thrown /\ Contains(ret.err.what, M_InvalidNumberSuffix)
        ELSE ~ret.err.thrown =>
                 /\ ret.tokens[1].type = "NUMBER"
                 /\ ret.tokens[1].value = DigitsAndLetter(call.text)

\* `1.1.1` was read as one IDENTIFIER
C24_Witness ==
    /\ pc = "done"
    /\ call.text = <<49, 46, 49, 46, 49>>
    /\ ~ret.err.thrown
    /\ Kinds(ret.tokens) = <<"IDENTIFIER", "END_OF_FILE">>
    /\ ret.tokens[1].value = call.text

\* byte i of a double-quoted literal follows an odd number of backslashes
Escaped(text, i) ==
    LET j == CHOOSE j \in 1..(i - 1) :
                 text[j] # 92 /\ \A k \in (j + 1)..(i - 1) : text[k] = 92
    IN  (i - 1 - j) % 2 = 1

\* the escapes of a double-quoted literal and the bytes they stand for
EscapeChars == {110, 116, 114, 92, 34, 39}

Unescape(c) == CASE c = 110 -> 10 [] c = 116 -> 9 [] c = 114 -> 13 [] OTHER -> c

\* what byte i of a literal that starts with the quote q is to the literal: its closing
\* quote, a newline, a backslash that ends the input, a backslash that starts an escape
\* which does not exist (or any backslash between single quotes), or nothing of these
EventAt(text, q, i) ==
    IF q = 39
    THEN CASE text[i] = 39 -> "close"
           [] text[i] = 10 -> "newline"
           [] text[i] = 92 -> "backslash in single quotes"
           [] OTHER -> "none"
    ELSE IF Escaped(text, i) THEN "none"
    ELSE CASE text[i] = 34 -> "close"
           [] text[i] = 10 -> "newline"
           [] text[i] = 92 /\ i = Len(text) -> "trailing backslash"
           [] text[i] = 92 /\ text[i + 1] \notin EscapeChars -> "unknown escape"
           [] OTHER -> "none"

\* the same, with a backslash that ends the input taken as a trailing backslash between
\* single quotes too
EventAt_anyQuote(text, q, i) ==
    IF q = 39 /\ text[i] = 92 /\ i = Len(text) THEN "trailing backslash"
    ELSE EventAt(text, q, i)

\* the first byte of the literal that is an event, 0 when there is none
FirstEvent(text, q) ==
    LET events == {i \in 2..Len(text) : EventAt(text, q, i) # "none"}
    IN  IF events = {} THEN 0 ELSE CHOOSE i \in events : \A j \in events : i <= j

\* the content of a literal closed at byte `close`: its bytes without the backslashes
\* that start an escape, the escaped bytes replaced by what they stand for
Decoded(text, q, close) ==
    LET kept == {j \in 2..(close - 1) : q = 39 \/ text[j] # 92 \/ Escaped(text, j)}
        at(k) == CHOOSE j \in kept : Cardinality({m \in kept : m <= j}) = k
    IN  [k \in 1..Cardinality(kept) |->
            IF q = 34 /\ Escaped(text, at(k)) THEN Unescape(text[at(k)]) ELSE text[at(k)]]

\* the outcome of tokenize() on a string literal whose first event is byte `first` (0: none)
\* and of kind `event`: closed, it is one STRING token with the decoded content; otherwise
\* it fails, with "Unterminated string literal" exactly for a newline, a trailing
\* backslash and the end of the input
LiteralOutcome(first, event) ==
    LET q == call.text[1]
    IN  IF event = "close"
        THEN /\ ret.err.thrown => first < Len(call.text)
             /\ ~ret.err.thrown =>
                    /\ ret.tokens[1].type = "STRING"
                    /\ ret.tokens[1].value = Decoded(call.text, q, first)
        ELSE /\ ret.err.thrown
             /\ event \in {"newline", "trailing backslash", "end of input"}
                    <=> Contains(ret.err.what, M_UnterminatedString)

\* C25 as stated: a quoted string literal yields one STRING token whose lexeme is the
\* decoded content between the quotes (possibly empty); between double quotes exactly the
\* escapes \n \t \r \\ \" \' decode to one byte each and any other escape fails; any
\* backslash between single quotes fails; an unescaped newline, a trailing backslash
\* (between quotes of either kind) or the end of the input before the closing quote fails
\* with "Unterminated string literal".
C25_TrailingBackslashAnyQuote ==
    (pc = "done" /\ call.text \in StringLiteralTexts) =>
        LET q     == call.text[1]
            first == FirstEvent(call.text, q)
        IN  LiteralOutcome(first, IF first = 0 THEN "end of input"
                                  ELSE EventAt_anyQuote(call.text, q, first))

\* C25, amended: the same, except that the trailing backslash fails with "Unterminated
\* string literal" between double quotes only: between single quotes a backslash that ends
\* the input fails as every other backslash there, with "Escapes not allowed in
\* single-quoted strings".
C25_StringLiteral ==
    (pc = "done" /\ call.text \in StringLiteralTexts) =>
        LET q     == call.text[1]
            first == FirstEvent(call.text, q)
            event == IF first = 0 THEN "end of input" ELSE EventAt(call.text, q, first)
        IN  /\ LiteralOutcome(first, event)
            /\ event = "backslash in single quotes"
                   => Contains(ret.err.what, M_EscapesNotAllowed)

\* the literal 'a\ , a single quote, `a` and a backslash that ends the input, failed with
\* "Escapes not allowed in single-quoted strings"
C25_Witness ==
    /\ pc = "done"
    /\ call.text = <<39, 97, 92>>
    /\ ret.err.thrown
    /\ Contains(ret.err.what, M_EscapesNotAllowed)
    /\ ~Contains(ret.err.what, M_UnterminatedString)

---------------------------------------------------------------------------
(* Calls of Tokenizer(text).tokenize() on words with whitespace or a       *)
(* comment put in after one of them; the call carries the insertion its    *)
(* text was made from.                                                     *)

InitInsert ==
    /\ \E c \in Insertions :
           call = [fn |-> "tokenize", text |-> InsertionText(c), insertion |-> c]
    /\ ret = NoCall
    /\ pc = "call"
    /\ input = <<>>
    /\ tokens = <<>>
    /\ pos = 0
    /\ config = <<>>
    /\ server = Server
    /\ location = Location
    /\ seen = [parseServer |-> {}, parseLocation |-> {}]
    /\ result = NoResult

SpecInsert == InitInsert /\ [][TokenizeText]_vars

\* the number of newlines in a filler
Newlines(filler) == Cardinality({i \in 1..Len(filler) : filler[i] = 10})

\* the tokens of the words of an insertion were returned, followed by END_OF_FILE, each
\* with the kind and the lexeme of its word and on the line it is written on
WordsReturned(c) ==
    /\ ~ret.err.thrown
    /\ Len(ret.tokens) = Len(c.words) + 1
    /\ ret.tokens[Len(ret.tokens)].type = "END_OF_FILE"
    /\ \A i \in 1..Len(c.words) :
           /\ ret.tokens[i].type = c.words[i].type
           /\ ret.tokens[i].value = c.words[i].value
           /\ ret.tokens[i].line = 1 + (IF i > c.after THEN Newlines(c.filler) ELSE 0)

\* what an insertion must come to: the words when the filler is whitespace or a closed
\* comment, the failure "Unterminated block comment" when the comment is not closed
AsIfNotThere(c) ==
    IF c.filler \in OpenComments
    THEN ret.err.thrown /\ Contains(ret.err.what, M_UnterminatedComment)
    ELSE WordsReturned(c)

\* the word is read by parseIdentifierOrKeyword when a '/' directly follows it: an
\* identifier, a keyword, or a number of one digit, which dispatchToken hands to
\* parseIdentifierOrKeyword because its second byte is then an identifier character that
\* is no digit. A number of two or more digits is read by parseNumberOrUnit, which stops
\* at the '/'.
JoinsSlash(word) ==
    \/ word.type \notin {"NUMBER", "STRING", "LBRACE", "RBRACE", "SEMICOLON"}
    \/ word.type = "NUMBER" /\ Len(word.raw) = 1

\* the filler starts with '/' and directly follows a word that takes the '/' in
SlashAfterWord(c) ==
    /\ c.filler[1] = 47
    /\ ~c.spaced
    /\ JoinsSlash(c.words[c.after])

\* C26 as stated: whitespace and comments are invisible to the token stream: spaces,
\* tabs, CR, newlines, a `#` or `//` comment ended by a newline or a closed `/* */`
\* comment put between two tokens do not change the kinds and lexemes, and the tokens
\* after it carry the correct line; a block comment that ends the input is accepted and
\* one that is not closed fails with "Unterminated block comment".
C26_InvisibleEverywhere == pc = "done" => AsIfNotThere(call.insertion)

\* C26, amended: the same, except for a `//` or `/*` comment that directly follows, with
\* no whitespace between, an identifier, a keyword or a number of one digit: there, and
\* only there, the '/' is read as a character of the token before it, and the outcome is
\* not the one without the comment. After a number of two or more digits (with or
\* without a unit letter), a string, a brace or a semicolon the comment is invisible.
C26_InvisibleUnlessJoined ==
    pc = "done" => (AsIfNotThere(call.insertion) <=> ~SlashAfterWord(call.insertion))

\* `10` directly followed by the comment `//c` and, on the next line, `;`: NUMBER 10 on
\* line 1 and the semicolon on line 2
C26_Witness ==
    /\ pc = "done"
    /\ call.text = <<49, 48>> \o F_slashes \o <<59, 32>>
    /\ call.insertion.filler = F_slashes
    /\ ~call.insertion.spaced
    /\ ~ret.err.thrown
    /\ Kinds(ret.tokens) = <<"NUMBER", "SEMICOLON", "END_OF_FILE">>
    /\ ret.tokens[1].value = <<49, 48>>
    /\ ret.tokens[2].line = 2

---------------------------------------------------------------------------
(* Directives whose argument is spelled like a keyword.                    *)

\* a keyword in a letter case, bare or between quotes, alone or after the argument `a`,
\* as argument of server_name in a server block or of root in a location block
KeywordArgCases ==
    [word : KeywordMapKeys,
     style : {"lower", "upper", "capital", "alternate"},
     quote : {<<>>, <<34>>, <<39>>},
     first : BOOLEAN,
     block : {"parseServer", "parseLocation"}]

\* the argument as it is spelled, without its quotes
KeywordArgWord(c) == Styled(c.word, c.style)

\* the text up to the keyword argument or its opening quote
KeywordArgPrefix(c) ==
    (IF c.block = "parseServer"
     THEN W_server_open \o W_sp \o K_server_name
     ELSE W_server_open \o W_sp \o W_location_open \o W_slash \o W_open \o W_sp \o K_root)
        \o (IF c.first THEN W_sp \o W_a ELSE <<>>) \o W_sp

\* "server { server_name [a] word; }" or "server { location / { root [a] word; } }"
KeywordArgText(c) ==
    KeywordArgPrefix(c) \o c.quote \o KeywordArgWord(c) \o c.quote \o W_semi
        \o (IF c.block = "parseServer" THEN W_close ELSE W_close \o W_close)

KeywordArgTexts == {KeywordArgText(c) : c \in KeywordArgCases}

---------------------------------------------------------------------------
(* Servers built with setPort / addServerName, collected in a vector and   *)
(* queried with hasServerName and findMatchingServer, as test_server.cpp   *)
(* does.  `server` is the Server being built and `config` the vector.      *)

\* the most names added to one server, and the most servers in the vector
MaxNames == 1
MaxServers == 2

\* H_A: "A"
H_A == <<65>>

\* the names added and asked for, and the ports set and asked for
HostNames == {W_a, H_A, W_b}
ListenPorts == {80, 81}
AskedPorts == {80, 81, 82}

InitServers ==
    /\ server = Server
    /\ config = <<>>
    /\ pc = "build"
    /\ call = NoCall
    /\ ret = NoCall
    /\ input = <<>>
    /\ tokens = <<>>
    /\ pos = 0
    /\ location = Location
    /\ seen = [parseServer |-> {}, parseLocation |-> {}]
    /\ result = NoResult

\* s.setPort(port)
SetPort ==
    /\ pc = "build"
    /\ \E port \in ListenPorts : server' = setPort(server, port)
    /\ UNCHANGED <<input, tokens, pos, pc, config, location, seen, result, call, ret>>

\* s.addServerName(name)
AddServerName ==
    /\ pc = "build"
    /\ Len(server.server_names) < MaxNames
    /\ \E name \in HostNames : server' = addServerName(server, name)
    /\ UNCHANGED <<input, tokens, pos, pc, config, location, seen, result, call, ret>>

\* servers.push_back(s), and a new Server s
PushBack ==
    /\ pc = "build"
    /\ Len(config) < MaxServers
    /\ config' = Append(config, server)
    /\ server' = Server
    /\ UNCHANGED <<input, tokens, pos, pc, location, seen, result, call, ret>>

\* s.hasServerName(name)
HasServerName ==
    /\ pc = "build"
    /\ \E name \in HostNames :
           /\ call' = [fn |-> "hasServerName", name |-> name]
           /\ ret' = [value |-> hasServerName(server, name)]
    /\ pc' = "done"
    /\ UNCHANGED <<input, tokens, pos, config, server, location, seen, result>>

\* findMatchingServer(servers, port, host_name)
FindMatchingServer ==
    /\ pc = "build"
    /\ \E port \in AskedPorts, host_name \in HostNames :
           /\ call' = [fn |-> "findMatchingServer", port |-> port, host_name |-> host_name]
           /\ ret' = findMatchingServer(config, port, host_name)
    /\ pc' = "done"
    /\ UNCHANGED <<input, tokens, pos, config, server, location, seen, result>>

NextServers ==
    \/ SetPort
    \/ AddServerName
    \/ PushBack
    \/ HasServerName
    \/ FindMatchingServer

SpecServers == InitServers /\ [][NextServers]_vars

\* the smallest member of a non-empty set of indices
Least(S) == CHOOSE i \in S : \A j \in S : i <= j

\* the indices of the servers on a port, and of those that also carry a name
OnPort(servers, port) == {i \in 1..Len(servers) : servers[i].port = port}
OnPortWithName(servers, port, name) ==
    {i \in OnPort(servers, port) :
         \E k \in 1..Len(servers[i].server_names) : servers[i].server_names[k] = name}

\* C22: findMatchingServer(servers, port, host) returns the first server in list order
\* with that port and with host among its server names; if there is none, the first
\* server in list order with that port; if no server has the port it fails with
\* "No matching server found for port N".  A returned server has the requested port.
C22_FindMatchingServer ==
    (pc = "done" /\ call.fn = "findMatchingServer") =>
        LET named  == OnPortWithName(config, call.port, call.host_name)
            onPort == OnPort(config, call.port)
        IN  /\ named # {} =>
                   ~ret.err.thrown /\ ret.index = Least(named) /\ ret.server = config[Least(named)]
            /\ (named = {} /\ onPort # {}) =>
                   ~ret.err.thrown /\ ret.index = Least(onPort) /\ ret.server = config[Least(onPort)]
            /\ onPort = {} =>
                   ret.err.thrown /\ ret.err.what = M_NoMatchingServer \o to_string(call.port)
            /\ ~ret.err.thrown => ret.server.port = call.port

\* the second server was returned for its name although the first has the same port
C22_Witness ==
    /\ pc = "done"
    /\ call.fn = "findMatchingServer"
    /\ ~ret.err.thrown
    /\ ret.index = 2
    /\ config[1].port = call.port
    /\ config[1].server_names # <<>>

\* C27: for every Server and every name n, after addServerName(n) the call
\* hasServerName(n) returns true; hasServerName(m) stays false for every name m that was
\* not added; and the name is appended also when the server already has it.
C27_AddedNameIsFound ==
    [][\A n \in HostNames :
           (pc = "build" /\ pc' = "build" /\ config' = config
                /\ server' = addServerName(server, n))
               => /\ hasServerName(server', n)
                  /\ \A m \in HostNames \ {n} :
                         hasServerName(server', m) => hasServerName(server, m)
                  /\ Len(server'.server_names) = Len(server.server_names) + 1]_vars

---------------------------------------------------------------------------
(* The loops one iteration at a time: the while loop of tokenize() and the *)
(* while loop of collectArgs() are stepped through, around the loops of    *)
(* parseConfig, parseServer and parseLocation.  `call` holds the members   *)
(* or locals of the function whose loop is running.                        *)

StepTexts ==
    ScenarioTexts \cup TopLevelTexts \cup DamagedTexts \cup ArityTexts \cup KeywordArgTexts

InitSteps == \E text \in StepTexts : Start(text)

\* tokenize() up to its while loop
Tokenize_enter ==
    /\ pc = "construct"
    /\ pc' = "tokenize_loop"
    /\ call' = [fn |-> "tokenize", cur |-> skipUtf8BOM(input, Tokenizer), tokens |-> <<>>]
    /\ UNCHANGED <<input, tokens, pos, config, server, location, seen, result, ret>>

\* tokenize(): one iteration of the while loop
Tokenize_iteration ==
    /\ pc = "tokenize_loop"
    /\ ~Tokenizer_isAtEnd(input, call.cur)
    /\ LET it == tokenizeIteration(input, call.cur)
       IN  IF it.err.thrown
           THEN /\ Throws(it.err, pos)
                /\ call' = NoCall
           ELSE /\ call' = [call EXCEPT !.cur = it.cur, !.tokens = @ \o it.emitted]
                /\ UNCHANGED <<pc, pos, result>>
    /\ UNCHANGED <<input, tokens, config, server, location, seen, ret>>

\* tokenize(): the loop condition fails, the END_OF_FILE token is pushed and the
\* constructor stores the tokens
Tokenize_return ==
    /\ pc = "tokenize_loop"
    /\ Tokenizer_isAtEnd(input, call.cur)
    /\ tokens' = Append(call.tokens, makeToken(call.cur, "END_OF_FILE", <<>>))
    /\ pc' = "parseConfig"
    /\ call' = NoCall
    /\ UNCHANGED <<input, pos, config, server, location, seen, result, ret>>

\* the error of a directive that was seen before in its block
DuplicateDirective(name, key) ==
    ConfigParseError(formatError(M_DuplicateDirective \o name \o M_Quote, key.line, key.column))

\* parseServer: an iteration on a directive, up to the while loop of collectArgs
ParseServerDirective_begin ==
    /\ pc = "parseServer_loop"
    /\ inBlock(tokens, pos)
    /\ current(tokens, pos).type # "KEYWORD_LOCATION"
    /\ LET key == current(tokens, pos)
           name == toLower(key.value)
           dup == checkDuplicateDirective(name, seen.parseServer, kRepeatableServerDirectives)
       IN  IF ~dup.ok
           THEN /\ Throws(DuplicateDirective(name, key), pos)
                /\ UNCHANGED <<seen, call>>
           ELSE /\ pc' = "collectArgs"
                /\ pos' = advance(tokens, pos)
                /\ seen' = [seen EXCEPT !.parseServer = dup.seen]
                /\ call' = [fn |-> "parseServerDirective", key |-> key, values |-> <<>>]
                /\ UNCHANGED result
    /\ UNCHANGED <<input, tokens, config, server, location, ret>>

\* parseLocation: an iteration, up to the while loop of collectArgs
ParseLocationDirective_begin ==
    /\ pc = "parseLocation_loop"
    /\ inBlock(tokens, pos)
    /\ LET key == current(tokens, pos)
           name == toLower(key.value)
           dup == checkDuplicateDirective(name, seen.parseLocation,
                                          kRepeatableLocationDirectives)
       IN  IF ~dup.ok
           THEN /\ Throws(DuplicateDirective(name, key), pos)
                /\ UNCHANGED <<seen, call>>
           ELSE /\ pc' = "collectArgs"
                /\ pos' = advance(tokens, pos)
                /\ seen' = [seen EXCEPT !.parseLocation = dup.seen]
                /\ call' = [fn |-> "parseLocationDirective", key |-> key, values |-> <<>>]
                /\ UNCHANGED result
    /\ UNCHANGED <<input, tokens, config, server, location, ret>>

\* the while loop of collectArgs goes on at cursor p
collectArgs_more(toks, p, validTypes) ==
    ~isAtEnd(toks, p) /\ current(toks, p).type \in validTypes

\* collectArgs: one iteration of the while loop
CollectArgs_iteration ==
    /\ pc = "collectArgs"
    /\ collectArgs_more(tokens, pos, kArgTokenTypes)
    /\ call' = [call EXCEPT !.values = Append(@, current(tokens, pos).value)]
    /\ pos' = advance(tokens, pos)
    /\ UNCHANGED <<input, tokens, pc, config, server, location, seen, result, ret>>

\* parseServerDirective after collectArgs: the ';' and the handler
ParseServerDirective_end ==
    /\ pc = "collectArgs"
    /\ call.fn = "parseServerDirective"
    /\ ~collectArgs_more(tokens, pos, kArgTokenTypes)
    /\ LET semi == expect(tokens, pos, "SEMICOLON", X_SemicolonAfterServerDirective)
           d == parseDirective_Server(server, call.key, call.values, call.key.line,
                                      call.key.column)
       IN  IF semi.err.thrown
           THEN /\ Throws(semi.err, semi.pos)
                /\ UNCHANGED server
           ELSE IF d.err.thrown
           THEN /\ Throws(d.err, semi.pos)
                \* the target as the handler leaves it
                /\ server' = d.obj
           ELSE /\ pc' = "parseServer_loop"
                /\ pos' = semi.pos
                /\ server' = d.obj
                /\ UNCHANGED result
    /\ call' = NoCall
    /\ UNCHANGED <<input, tokens, config, location, seen, ret>>

\* parseLocationDirective after collectArgs: the ';' and the handler
ParseLocationDirective_end ==
    /\ pc = "collectArgs"
    /\ call.fn = "parseLocationDirective"
    /\ ~collectArgs_more(tokens, pos, kArgTokenTypes)
    /\ LET semi == expect(tokens, pos, "SEMICOLON", X_SemicolonAfterLocationDirective)
           d == parseDirective_Location(location, call.key, call.values, call.key.line,
                                        call.key.column)
       IN  IF semi.err.thrown
           THEN /\ Throws(semi.err, semi.pos)
                /\ UNCHANGED location
           ELSE IF d.err.thrown
           THEN /\ Throws(d.err, semi.pos)
                \* the target as the handler leaves it
                /\ location' = d.obj
           ELSE /\ pc' = "parseLocation_loop"
                /\ pos' = semi.pos
                /\ location' = d.obj
                /\ UNCHANGED result
    /\ call' = NoCall
    /\ UNCHANGED <<input, tokens, config, server, seen, ret>>

NextSteps ==
    \/ Tokenize_enter
    \/ Tokenize_iteration
    \/ Tokenize_return
    \/ ParseConfig_enter
    \/ ParseConfig_return
    \/ ParseServer_open
    \/ ParseServerDirective_begin
    \/ ParseLocation_open
    \/ ParseLocationDirective_begin
    \/ CollectArgs_iteration
    \/ ParseServerDirective_end
    \/ ParseLocationDirective_end
    \/ ParseLocation_close
    \/ ParseServer_close

\* every enabled step of the program is taken sooner or later: it runs on one thread
SpecSteps == InitSteps /\ [][NextSteps]_vars /\ WF_vars(NextSteps)

\* the run is over: parseConfig() returned or an exception reached the caller
Over == pc \in {"returned", "thrown"}

\* stepping through the loops ends as the functions do
StepsAgree ==
    Over => /\ result.err = ConfigParser_parseConfig(input).err
            /\ result.config = ConfigParser_parseConfig(input).config

\* where the loops of the parser stand: at the head of the loop of parseConfig,
\* parseServer or parseLocation, or in the loop of collectArgs
ParserLoops == {"parseConfig_loop", "parseServer_loop", "parseLocation_loop", "collectArgs"}

\* a step of the tokenizer's loop that does not fail consumes at least one byte, and a
\* step of a parser loop that neither fails nor returns consumes at least one token
Consumes ==
    /\ (pc = "tokenize_loop" /\ pc' = "tokenize_loop") => call'.cur.pos > call.cur.pos
    /\ (pc \in ParserLoops /\ ~Over') => (pos' > pos /\ pos' < Len(tokens))

\* C28: for every finite input tokenize() and parseConfig() terminate, with a result or
\* with an error: every iteration of the tokenizer's main loop consumes at least one
\* byte or fails, and every iteration of the parser's top-level, server-block,
\* location-block and argument-collection loops consumes at least one token or fails.
C28_LoopsTerminate == [][Consumes]_vars /\ <>Over

\* a server block with a directive and a location block was read to the end: every loop
\* has run and parseConfig() returned at the END_OF_FILE token
C28_Witness ==
    /\ pc = "returned"
    /\ pos = Len(tokens) - 1
    /\ Len(result.config) = 1
    /\ Len(result.config[1].locations) = 1

\* the index of the END_OF_FILE token that ends the token vector
EofIndex(toks) == Len(toks) - 1

\* the cursor p, moved to q, stays on the token vector and does not go back
Forward(toks, p, q) == p <= q /\ q <= EofIndex(toks)

\* from every cursor of the token vector advance, expect, expectOneOf and collectArgs
\* leave the cursor on the vector and not before where it was
NavigationInRange(toks) ==
    \A p \in 0..EofIndex(toks) :
        /\ Forward(toks, p, advance(toks, p))
        /\ Forward(toks, p, collectArgs(toks, p, kArgTokenTypes).pos)
        /\ \A t \in TokenType :
               /\ Forward(toks, p, expect(toks, p, t, <<>>).pos)
               /\ Forward(toks, p, expectOneOf(toks, p, <<t>>, <<>>).pos)
               /\ Forward(toks, p, expectOneOf(toks, p, <<t, "IDENTIFIER">>, <<>>).pos)

\* C30: in every state reached during parseConfig the parser cursor satisfies
\* 0 <= pos <= index of the final Eof token: advance, expect, expectOneOf and
\* collectArgs never move the cursor past Eof and never move it backwards, so current()
\* never reads outside the token vector.
C30_CursorInRange ==
    [][tokens' # <<>> =>
           /\ tokens'[Len(tokens')].type = "END_OF_FILE"
           /\ 0 <= pos'
           /\ Forward(tokens', pos, pos')
           /\ current(tokens', pos') \in {tokens'[i] : i \in 1..Len(tokens')}
           /\ (tokens = <<>> => NavigationInRange(tokens'))]_vars

\* a text that ends inside its server block: expect('}') threw with the cursor on the
\* END_OF_FILE token, after the cursor had moved there
C30_Witness ==
    /\ pc = "thrown"
    /\ tokens # <<>>
    /\ pos > 0
    /\ pos = EofIndex(tokens)
    /\ current(tokens, pos).type = "END_OF_FILE"

\* the tokens the cursor passed since the directive name, whose values were collected
CollectedTokens ==
    SubSeq(tokens, pos + 1 - Len(call.values), pos)

\* collectArgs has returned and the directive goes on to its ';' and its handler
DirectiveEnds == pc = "collectArgs" /\ pc' # "collectArgs"

\* the failure of expect(';') on the token at 1-based column col of line 1
ExpectedSemicolon(type, col, context) ==
    formatError(M_Expected \o T_SEMICOLON \o M_ButGot \o debugTokenType(type) \o M_For
                    \o context, 1, col)

\* the arguments before the keyword argument
ArgsBefore(c) == IF c.first THEN <<W_a>> ELSE <<>>

\* a bare keyword ends the collection and the directive fails at the ';'; between
\* quotes the word is collected and the handler is given it
KeywordArgOutcome(c) ==
    IF c.quote = <<>>
    THEN /\ call.values = ArgsBefore(c)
         /\ pc' = "thrown"
         /\ result'.err.what =
                ExpectedSemicolon(keywords(c.word), Len(KeywordArgPrefix(c)) + 1,
                                  IF c.block = "parseServer"
                                  THEN X_SemicolonAfterServerDirective
                                  ELSE X_SemicolonAfterLocationDirective)
    ELSE /\ call.values = ArgsBefore(c) \o <<KeywordArgWord(c)>>
         /\ ~Contains(result'.err.what, T_SEMICOLON)
         /\ (c.block = "parseServer" =>
                 /\ pc' = "parseServer_loop"
                 /\ server'.server_names =
                        [i \in 1..Len(call.values) |-> toLower(call.values[i])])
         /\ (c.block = "parseLocation" /\ ~c.first =>
                 /\ pc' = "parseLocation_loop"
                 /\ location'.root = KeywordArgWord(c))

\* C29: every argument handed to a directive handler comes from a String, Number or
\* Identifier token: an unquoted argument whose spelling is a reserved keyword in any
\* letter case (`server_name host;`, `root index;`) ends argument collection and the
\* directive fails at the `;` expectation, while the same text in quotes is accepted as
\* an argument.
C29_KeywordEndsArguments ==
    [][DirectiveEnds =>
           /\ \A i \in 1..Len(call.values) :
                  /\ CollectedTokens[i].type \in {"STRING", "NUMBER", "IDENTIFIER"}
                  /\ CollectedTokens[i].value = call.values[i]
           /\ \A c \in KeywordArgCases : input = KeywordArgText(c) => KeywordArgOutcome(c)]_vars

\* `server { server_name a HOST; }`: the collection ended on HOST with `a` collected, and
\* the directive failed at the ';'
C29_Witness ==
    /\ pc = "thrown"
    /\ input = KeywordArgText([word |-> K_host, style |-> "upper", quote |-> <<>>,
                               first |-> TRUE, block |-> "parseServer"])
    /\ current(tokens, pos).type = "KEYWORD_HOST"
    /\ Contains(result.err.what, X_SemicolonAfterServerDirective)

=============================================================================
